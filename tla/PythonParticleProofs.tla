-------------------------- MODULE PythonParticleProofs --------------------------
(***************************************************************************)
(* Theorems about a particle that uses libffi (module PythonParticle), for *)
(* any programs, signatures and closures, and any bounds.  Of trampolines: *)
(* who owns the slots of the function table, where the stack pointer is,   *)
(* what a target finds and what a call comes back with.  Of boot and       *)
(* teardown: that layers nest, whichever list of releases is followed, and *)
(* that nothing is left.                                                   *)
(***************************************************************************)
EXTENDS PythonParticle, SequenceTheorems, WellFoundedInduction, TLAPS

Kinds   == {"null", "call", "closure"}
Entries == [kind : Kinds, sig : Sigs \union {NoSig}, closure : Closures \union {"none"}]

\* What the variables of the table range over.
TableOK ==
  /\ table \in Seq(Entries)
  /\ callCache \in [Sigs -> 0..Len(table)]
  /\ closure \in [Closures -> [slot : 0..Len(table), cif : Cifs \union {NoCif}]]

\* A slot was handed out once: to one descriptor or to one closure.
SlotsAreApart ==
  /\ \A s, t \in Sigs : callCache[s] # 0 /\ callCache[s] = callCache[t] => s = t
  /\ \A k, l \in Closures : closure[k].slot # 0 /\ closure[k].slot = closure[l].slot => k = l
  /\ \A s \in Sigs, k \in Closures : callCache[s] # 0 => callCache[s] # closure[k].slot

\* Until its closure is prepared a slot is empty.
UnpreparedIsNull ==
  \A k \in Closures : closure[k].slot # 0 /\ closure[k].cif = NoCif => table[closure[k].slot] = Null

SlotsInv == TableOK /\ SlotsAreApart /\ UnpreparedIsNull /\ SlotsAreServed

\* The variables the invariant reads.
slotVars == <<table, callCache, closure>>

\* The empty signature is none of the particle's.
LEMMA NoCifIsNone == NoCif \notin Cifs
BY CifsAssumption DEF NoCif

\* An instance starts with no slot taken, and so does the next one.
LEMMA SlotsStart ==
  table = <<>> /\ callCache = NoSlots /\ closure = NoClosures => SlotsInv
BY DEF SlotsInv, TableOK, SlotsAreApart, UnpreparedIsNull, SlotsAreServed, NoSlots, NoClosures

\* A step that leaves table, cache and closures alone keeps the invariant.
LEMMA SlotsStutter == SlotsInv /\ UNCHANGED slotVars => SlotsInv'
BY DEF SlotsInv, TableOK, SlotsAreApart, UnpreparedIsNull, SlotsAreServed, slotVars

\* What the guest appends at the end of the table is in no slot handed out before.
LEMMA SlotsPrepTrampoline ==
  ASSUME SlotsInv, NEW sig \in Sigs, NEW works \in BOOLEAN, PrepTrampoline(sig, works)
  PROVE  SlotsInv'
<1> USE DEF SlotsInv, TableOK, PrepTrampoline
<1> DEFINE new == IF works THEN Entry("call", sig, "none") ELSE Null
<1>1. new \in Entries
  BY DEF Entries, Entry, Null, Kinds
<1>2. /\ table' = Append(table, new) /\ Len(table') = Len(table) + 1
      /\ table' \in Seq(Entries)
      /\ \A i \in 1..Len(table) : table'[i] = table[i]
      /\ table'[Len(table) + 1] = new
  BY <1>1
<1>3. TableOK'
  BY <1>2
<1>4. SlotsAreApart'
  BY <1>2 DEF SlotsAreApart
<1>5. UnpreparedIsNull'
  BY <1>2 DEF UnpreparedIsNull
<1>6. SlotsAreServed'
  BY <1>2 DEF SlotsAreServed
<1>7. QED
  BY <1>3, <1>4, <1>5, <1>6

\* Allocating a closure disturbs no slot.
LEMMA SlotsClosureAlloc ==
  ASSUME SlotsInv, NEW k \in Closures, ClosureAlloc(k)
  PROVE  SlotsInv'
<1> USE DEF SlotsInv, TableOK, ClosureAlloc
<1>1. Null \in Entries
  BY DEF Entries, Entry, Null, Kinds
<1>2. /\ Len(table') = Len(table) + 1
      /\ table' \in Seq(Entries)
      /\ \A i \in 1..Len(table) : table'[i] = table[i]
      /\ table'[Len(table) + 1] = Null
  BY <1>1
<1>3. TableOK'
  BY <1>2
<1>4. SlotsAreApart'
  BY <1>2 DEF SlotsAreApart
<1>5. UnpreparedIsNull'
  BY <1>2 DEF UnpreparedIsNull
<1>6. SlotsAreServed'
  BY <1>2 DEF SlotsAreServed
<1>7. QED
  BY <1>3, <1>4, <1>5, <1>6

\* Preparing a closure takes a slot no other has, or none.
LEMMA SlotsPrepClosure ==
  ASSUME SlotsInv, NEW k \in Closures, NEW c \in Cifs, NEW works \in BOOLEAN,
         PrepClosure(k, c, works)
  PROVE  SlotsInv'
<1> USE DEF SlotsInv, TableOK, PrepClosure
<1>1. Entry("closure", build_sig(c), k) \in Entries
  BY DEF Entries, Entry, Kinds
<1>2. /\ Len(table') = Len(table)
      /\ table' \in Seq(Entries)
      /\ \A i \in 1..Len(table) : i # closure[k].slot => table'[i] = table[i]
      /\ table'[closure[k].slot] \in {Null, Entry("closure", build_sig(c), k)}
  BY <1>1 DEF UnpreparedIsNull
<1>3. TableOK'
  BY <1>2
<1>4. SlotsAreApart'
  BY <1>2 DEF SlotsAreApart
<1>5. UnpreparedIsNull'
  BY <1>2, NoCifIsNone DEF UnpreparedIsNull, SlotsAreApart
<1>6. SlotsAreServed'
  BY <1>2 DEF SlotsAreServed, SlotsAreApart
<1>7. QED
  BY <1>3, <1>4, <1>5, <1>6

\* No other step touches a slot.
LEMMA SlotsStep == SlotsInv /\ [Next]_vars => SlotsInv'
<1> SUFFICES ASSUME SlotsInv, [Next]_vars PROVE SlotsInv'
  OBVIOUS
<1>1. CASE TearDown /\ FfiGone
  <2>1. table' = <<>> /\ callCache' = NoSlots /\ closure' = NoClosures
    BY <1>1 DEF FfiGone
  <2>2. QED
    BY <2>1 DEF SlotsInv, TableOK, SlotsAreApart, UnpreparedIsNull, SlotsAreServed,
                NoSlots, NoClosures
<1>2. CASE (Build \/ GoesWithout \/ Fail \/ Release \/ Ended) /\ UNCHANGED ffiVars
  BY <1>2, SlotsStutter DEF ffiVars, slotVars
<1>3. CASE FfiNext
  <2>1. CASE \E sig \in Sigs, works \in BOOLEAN : PrepTrampoline(sig, works)
    BY <2>1, SlotsPrepTrampoline
  <2>2. CASE \E k \in Closures : ClosureAlloc(k)
    BY <2>2, SlotsClosureAlloc
  <2>3. CASE \E k \in Closures, c \in Cifs, works \in BOOLEAN : PrepClosure(k, c, works)
    BY <2>3, SlotsPrepClosure
  <2>4. CASE \E c \in Cifs, k \in Closures \union {"c"} : Dispatch(c, k)
    BY <2>4, SlotsStutter DEF Dispatch, slotVars
  <2>5. CASE TargetReturns
    BY <2>5, SlotsStutter DEF TargetReturns, slotVars
  <2>6. CASE CallerGoesOn
    BY <2>6, SlotsStutter DEF CallerGoesOn, slotVars
  <2>7. QED
    BY <1>3, <2>1, <2>2, <2>3, <2>4, <2>5, <2>6 DEF FfiNext
<1>4. CASE UNCHANGED vars
  BY <1>4, SlotsStutter DEF vars, ffiVars, slotVars
<1>5. QED
  BY <1>1, <1>2, <1>3, <1>4 DEF Next

\* A descriptor's cached slot holds its trampoline, and a closure's slot its own
\* trampoline or none, whichever of the two steps of growAndInstantiate and of
\* prep_closure fails, in any order of calls of prep_trampoline, closure_alloc and
\* prep_closure.
THEOREM SlotsServe == Spec => []SlotsAreServed
<1>1. Init => SlotsInv
  BY SlotsStart DEF Init, FfiInit
<1>2. SlotsInv => SlotsAreServed
  BY DEF SlotsInv
<1>3. QED
  BY <1>1, <1>2, SlotsStep, PTL DEF Spec

\* No slot is ever shared: two descriptors, two closures, a descriptor and a closure
\* have different slots of the function table.
THEOREM SlotsHaveOneOwner == Spec => []SlotsAreApart
<1>1. Init => SlotsInv
  BY SlotsStart DEF Init, FfiInit
<1>2. SlotsInv => SlotsAreApart
  BY DEF SlotsInv
<1>3. QED
  BY <1>1, <1>2, SlotsStep, PTL DEF Spec

-----------------------------------------------------------------------------
(* Induction, for the recursive functions of the layouts.                  *)

\* A set of natural numbers that is not empty has a least one.
LEMMA Least ==
  ASSUME NEW T, T \subseteq Nat, T # {}
  PROVE  \E x \in T : \A y \in T : x <= y
<1>1. \E R : IsWellFoundedOn(R, Nat) /\ \A x, y \in Nat : x < y => <<x, y>> \in R
  <2> DEFINE R == OpToRel(<, Nat)
  <2>1. IsWellFoundedOn(R, Nat)
    BY NatLessThanWellFounded
  <2>2. \A x, y \in Nat : x < y => <<x, y>> \in R
    BY DEF OpToRel
  <2> HIDE DEF R
  <2> QED
    BY <2>1, <2>2
<1>2. PICK R : IsWellFoundedOn(R, Nat) /\ \A x, y \in Nat : x < y => <<x, y>> \in R
  BY <1>1
<1>3. IsWellFoundedOn(R, Nat)
  BY <1>2
<1>4. \E x \in T : \A y \in T : ~ (<<y, x>> \in R)
  BY <1>3, WFMin, Zenon
<1>5. PICK x \in T : \A y \in T : ~ (<<y, x>> \in R)
  BY <1>4
<1>6. \A y \in T : x <= y
  <2> TAKE y \in T
  <2>1. x \in Nat /\ y \in Nat
    OBVIOUS
  <2>2. ~(y < x)
    BY <2>1, <1>2, <1>5
  <2> QED
    BY <2>1, <2>2
<1> QED
  BY <1>6

\* What holds of 0 and goes from each number below n to the next holds up to n.
LEMMA Induction ==
  ASSUME NEW n \in Nat, NEW S, 0 \in S, \A i \in 0..n : i # n /\ i \in S => i + 1 \in S
  PROVE  \A i \in 0..n : i \in S
<1> DEFINE Bad == {i \in 0..n : i \notin S}
<1>1. Bad \subseteq Nat
  OBVIOUS
<1>2. SUFFICES ASSUME Bad # {} PROVE FALSE
  OBVIOUS
<1>3. \E i \in Bad : \A j \in Bad : i <= j
  <2> HIDE DEF Bad
  <2> QED
    BY <1>1, <1>2, Least
<1>4. PICK i \in Bad : \A j \in Bad : i <= j
  BY <1>3
<1>5. i # 0 /\ i \in 0..n
  OBVIOUS
<1>6. i - 1 \in 0..n /\ i - 1 # n
  BY <1>5
<1>7. i - 1 \in S
  BY <1>4, <1>6
<1> QED
  BY <1>5, <1>6, <1>7

-----------------------------------------------------------------------------
(* Where a layout puts things.                                             *)

Aligns == {1, 4, 8, 16}
Fours  == {n \in Nat : n % 4 = 0}
Extent == [align : Aligns, size : Fours]

\* Sums of multiples of four.
LEMMA FoursAdd ==
  ASSUME NEW a \in Fours, NEW b \in Fours
  PROVE  a + b \in Fours
<1>1. a \in Nat /\ b \in Nat /\ a % 4 = 0 /\ b % 4 = 0
  BY DEF Fours
<1>2. (a + b) % 4 = 0 /\ a + b \in Nat
  BY <1>1
<1> QED
  BY <1>2 DEF Fours

\* How many words a multiple of four is.
LEMMA Quarters ==
  ASSUME NEW s \in Fours
  PROVE  s \div 4 \in Nat /\ 4 * (s \div 4) = s
<1>1. s \in Nat /\ s % 4 = 0
  BY DEF Fours
<1> QED
  BY <1>1

\* Rounding up: a multiple, and at least the number.
LEMMA AlignUp ==
  ASSUME NEW n \in Fours, NEW a \in Aligns
  PROVE  alignUp(n, a) \in Fours /\ alignUp(n, a) >= n /\ alignUp(n, a) % a = 0
<1>1. CASE a = 1 BY <1>1 DEF alignUp, Fours
<1>2. CASE a = 4 BY <1>2 DEF alignUp, Fours
<1>3. CASE a = 8 BY <1>3 DEF alignUp, Fours
<1>4. CASE a = 16 BY <1>4 DEF alignUp, Fours
<1> QED
  BY <1>1, <1>2, <1>3, <1>4 DEF Aligns

\* The ends up to the n-th, and where they come from.
Upto(x, n, e) ==
  /\ e \in [0..n -> Fours]
  /\ \A i \in 0..n : e[i] = IF i = 0 THEN 0 ELSE alignUp(e[i - 1], x[i].align) + x[i].size

EndsFrom(x, e) ==
  [i \in 0..Len(x) |-> IF i = 0 THEN 0 ELSE alignUp(e[i - 1], x[i].align) + x[i].size]

\* Ends is a recursive function: what the definition chooses.
LEMMA EndsChosen == \A x : Ends(x) = CHOOSE e : e = EndsFrom(x, e)
BY DEF Ends, EndsFrom

\* There is a function that satisfies the equation, built one element at a time.
LEMMA UptoExists ==
  ASSUME NEW x \in Seq(Extent)
  PROVE  \E e : Upto(x, Len(x), e)
<1> DEFINE S == {n \in 0..Len(x) : \E e : Upto(x, n, e)}
<1>1. 0 \in S
  <2> DEFINE e == [i \in 0..0 |-> 0]
  <2>1. Upto(x, 0, e)
    BY DEF Upto, Fours
  <2> QED
    BY <2>1
<1>2. ASSUME NEW i \in 0..Len(x), i # Len(x), i \in S
      PROVE  i + 1 \in S
  <2> DEFINE n == i + 1
  <2>1. n \in 1..Len(x) /\ n - 1 = i
    BY <1>2
  <2>2. PICK e : Upto(x, i, e)
    BY <1>2
  <2> DEFINE f == [j \in 0..n |-> IF j = n THEN alignUp(e[i], x[n].align) + x[n].size ELSE e[j]]
  <2>3. x[n] \in Extent /\ e[i] \in Fours
    BY <2>1, <2>2 DEF Upto
  <2>4. alignUp(e[i], x[n].align) + x[n].size \in Fours
    <3>1. x[n].align \in Aligns /\ x[n].size \in Fours
      BY <2>3 DEF Extent
    <3>2. alignUp(e[i], x[n].align) \in Fours
      BY <2>3, <3>1, AlignUp
    <3> QED
      BY <3>1, <3>2, FoursAdd
  <2>5. Upto(x, n, f)
    <3>1. f \in [0..n -> Fours]
      BY <2>1, <2>2, <2>4 DEF Upto
    <3>2. ASSUME NEW j \in 0..n
          PROVE  f[j] = IF j = 0 THEN 0 ELSE alignUp(f[j - 1], x[j].align) + x[j].size
      <4>1. CASE j = n BY <4>1, <2>1
      <4>2. CASE j # n BY <4>2, <2>1, <2>2 DEF Upto
      <4> QED BY <4>1, <4>2
    <3> HIDE DEF f
    <3> QED
      BY <3>1, <3>2 DEF Upto
  <2> QED
    BY <2>1, <2>5
<1> HIDE DEF S
<1>3. \A i \in 0..Len(x) : i # Len(x) /\ i \in S => i + 1 \in S
  BY <1>2
<1>4. Len(x) \in S
  <2>1. Len(x) \in Nat
    OBVIOUS
  <2>2. \A i \in 0..Len(x) : i \in S
    BY <2>1, <1>1, <1>3, Induction
  <2> QED
    BY <2>1, <2>2
<1> QED
  BY <1>4 DEF S

\* Ends is what its recursion says.
LEMMA EndsUpto ==
  ASSUME NEW x \in Seq(Extent)
  PROVE  Upto(x, Len(x), Ends(x))
<1>1. PICK e : Upto(x, Len(x), e)
  BY UptoExists
<1>2. e = EndsFrom(x, e)
  BY <1>1 DEF Upto, EndsFrom
<1>3. Ends(x) = EndsFrom(x, Ends(x))
  BY <1>2, EndsChosen
<1> DEFINE g == Ends(x)
<1>4. \A i \in 0..Len(x) : g[i] = IF i = 0 THEN 0 ELSE alignUp(g[i - 1], x[i].align) + x[i].size
  BY <1>3 DEF EndsFrom
<1>5. g = [i \in 0..Len(x) |-> g[i]]
  BY <1>3 DEF EndsFrom
<1> HIDE DEF g
<1> DEFINE S == {i \in 0..Len(x) : g[i] = e[i]}
<1>6. 0 \in S
  BY <1>1, <1>4 DEF Upto
<1>7. \A i \in 0..Len(x) : i # Len(x) /\ i \in S => i + 1 \in S
  BY <1>1, <1>4 DEF Upto
<1> HIDE DEF S
<1>8. \A i \in 0..Len(x) : i \in S
  BY <1>6, <1>7, Induction
<1>9. g = e
  BY <1>1, <1>5, <1>8 DEF Upto, S
<1> QED
  BY <1>1, <1>9 DEF g

\* Things are placed one after the other, each at its alignment, and none over another.
LEMMA Placed ==
  ASSUME NEW x \in Seq(Extent)
  PROVE  /\ Place(x).end \in Fours
         /\ Place(x).at \in [1..Len(x) -> Fours]
         /\ \A i \in 1..Len(x) : Place(x).at[i] + x[i].size <= Place(x).end
         /\ \A i, j \in 1..Len(x) : i < j => Place(x).at[i] + x[i].size <= Place(x).at[j]
         /\ Len(x) > 0 => Place(x).at[1] = alignUp(0, x[1].align)
         /\ Len(x) = 0 => Place(x).end = 0
<1> DEFINE e == Ends(x)
           at == Place(x).at
<1>1. /\ e \in [0..Len(x) -> Fours]
      /\ \A i \in 0..Len(x) : e[i] = IF i = 0 THEN 0 ELSE alignUp(e[i - 1], x[i].align) + x[i].size
  BY EndsUpto DEF Upto
<1>2. Place(x).end = e[Len(x)] /\ at = [i \in 1..Len(x) |-> alignUp(e[i - 1], x[i].align)]
  BY DEF Place
<1> HIDE DEF e, at
<1>3. ASSUME NEW i \in 1..Len(x)
      PROVE  at[i] \in Fours /\ at[i] >= e[i - 1] /\ e[i] = at[i] + x[i].size /\ x[i].size \in Fours
  <2>1. x[i] \in Extent /\ i - 1 \in 0..Len(x)
    OBVIOUS
  <2>2. x[i].align \in Aligns /\ x[i].size \in Fours /\ e[i - 1] \in Fours
    BY <2>1, <1>1 DEF Extent
  <2> QED
    BY <2>2, <1>1, <1>2, AlignUp
<1>4. ASSUME NEW i \in 0..Len(x)
      PROVE  \A j \in 0..Len(x) : i <= j => e[i] <= e[j]
  <2> DEFINE S == {j \in 0..Len(x) : i <= j => e[i] <= e[j]}
  <2>1. 0 \in S
    BY <1>1 DEF Fours
  <2>2. ASSUME NEW j \in 0..Len(x), j # Len(x), j \in S
        PROVE  j + 1 \in S
    <3>1. j + 1 \in 1..Len(x) /\ (j + 1) - 1 = j
      BY <2>2
    <3>2. e[j] <= e[j + 1]
      <4> DEFINE n == j + 1
      <4>1. at[n] \in Fours /\ at[n] >= e[n - 1] /\ e[n] = at[n] + x[n].size /\ x[n].size \in Fours
        BY <3>1, <1>3
      <4>2. e[j] \in Nat
        BY <1>1 DEF Fours
      <4> QED
        BY <3>1, <4>1, <4>2 DEF Fours
    <3>3. e[i] \in Nat /\ e[j] \in Nat /\ e[j + 1] \in Nat
      <4>1. e[i] \in Fours /\ e[j] \in Fours /\ e[j + 1] \in Fours
        BY <3>1, <1>1
      <4> QED
        BY <4>1 DEF Fours
    <3>4. CASE i = j + 1 BY <3>1, <3>3, <3>4
    <3>5. CASE i <= j BY <3>1, <3>2, <3>3, <3>5, <2>2
    <3>6. CASE i > j + 1 BY <3>1, <3>6
    <3> QED BY <3>4, <3>5, <3>6
  <2> HIDE DEF S
  <2>3. \A j \in 0..Len(x) : j # Len(x) /\ j \in S => j + 1 \in S
    BY <2>2
  <2>4. \A j \in 0..Len(x) : j \in S
    BY <2>1, <2>3, Induction
  <2> QED
    BY <2>4 DEF S
<1>5. Place(x).end \in Fours
  BY <1>1, <1>2
<1>6. at \in [1..Len(x) -> Fours]
  BY <1>2, <1>3
<1>7. \A i \in 1..Len(x) : at[i] + x[i].size <= Place(x).end
  BY <1>2, <1>3, <1>4
<1>8. \A i, j \in 1..Len(x) : i < j => at[i] + x[i].size <= at[j]
  <2> TAKE i, j \in 1..Len(x)
  <2> HAVE i < j
  <2>1. i \in 0..Len(x) /\ j - 1 \in 0..Len(x) /\ i <= j - 1
    OBVIOUS
  <2>2. e[i] <= e[j - 1] /\ e[j - 1] <= at[j] /\ e[i] = at[i] + x[i].size
    BY <2>1, <1>3, <1>4
  <2>3. e[i] \in Nat /\ e[j - 1] \in Nat /\ at[j] \in Nat
    BY <2>1, <1>1, <1>6 DEF Fours
  <2> QED
    BY <2>2, <2>3
<1>9. Len(x) > 0 => at[1] = alignUp(0, x[1].align)
  BY <1>1, <1>2
<1>10. Len(x) = 0 => Place(x).end = 0
  BY <1>1, <1>2
<1> QED
  BY <1>5, <1>6, <1>7, <1>8, <1>9, <1>10 DEF at

-----------------------------------------------------------------------------
(* Types.                                                                  *)

\* The pieces of a value lie in it one after the other.
GoodPieces(pieces, size) ==
  /\ pieces \in Seq([at : Fours, size : Fours])
  /\ \A i \in 1..Len(pieces) : pieces[i].at + pieces[i].size <= size
  /\ \A i, j \in 1..Len(pieces) : i < j => pieces[i].at + pieces[i].size <= pieces[j].at

\* The size and alignment of a scalar.
LEMMA CScalar ==
  ASSUME NEW tag \in ScalarTags
  PROVE  /\ Width(tag) \in {4, 8, 16} /\ Width(tag) \in Fours
         /\ CAlign(Scalar(tag)) \in {4, 8, 16}
         /\ tag # "longdouble" => Width(tag) # 16
BY DEF ScalarTags, Width, Fours, CAlign, Scalar

\* The pieces of a scalar and of a struct.
LEMMA ScalarPieces ==
  ASSUME NEW t, t.tag \in ScalarTags \union {"void"}, t.fields = <<>>
  PROVE  /\ t.tag = "void" => CPieces(t) = <<>>
         /\ t.tag = "longdouble" => CPieces(t) = <<[at |-> 0, size |-> 8], [at |-> 8, size |-> 8]>>
         /\ t.tag \notin {"void", "longdouble"} => CPieces(t) = <<[at |-> 0, size |-> Width(t.tag)]>>
<1>1. t.fields # <<"longdouble">>
  OBVIOUS
<1>2. CASE t.tag = "void"
  BY <1>1, <1>2 DEF CPieces
<1>3. CASE t.tag = "longdouble"
  BY <1>3 DEF CPieces
<1>4. CASE t.tag \notin {"void", "longdouble"}
  <2>1. t.tag # "struct"
    BY DEF ScalarTags
  <2> QED
    BY <1>1, <1>4, <2>1 DEF CPieces
<1> QED
  BY <1>2, <1>3, <1>4

\* The scalars of a struct: the two halves of a boxed long double, or its fields.
LEMMA StructPieces ==
  ASSUME NEW t, t.tag = "struct"
  PROVE  /\ t.fields = <<"longdouble">> => CPieces(t) = <<[at |-> 0, size |-> 8], [at |-> 8, size |-> 8]>>
         /\ t.fields # <<"longdouble">> =>
              CPieces(t) = [i \in DOMAIN t.fields |-> [at   |-> Place(CFields(t)).at[i],
                                                       size |-> Width(t.fields[i])]]
<1>1. CASE t.fields = <<"longdouble">>
  BY <1>1 DEF CPieces
<1>2. CASE t.fields # <<"longdouble">>
  BY <1>2 DEF CPieces
<1> QED
  BY <1>1, <1>2

\* The fields of a struct, as extents.
LEMMA CFieldExtents ==
  ASSUME NEW fields \in Seq(ScalarTags)
  PROVE  /\ CFields(Struct(fields)) \in Seq(Extent)
         /\ Len(CFields(Struct(fields))) = Len(fields)
         /\ \A i \in 1..Len(fields) :
              CFields(Struct(fields))[i] = [align |-> CAlign(Scalar(fields[i])), size |-> Width(fields[i])]
<1>1. ASSUME NEW i \in 1..Len(fields)
      PROVE  [align |-> CAlign(Scalar(fields[i])), size |-> Width(fields[i])] \in Extent
  BY CScalar DEF Extent, Aligns
<1>2. CFields(Struct(fields))
        = [i \in 1..Len(fields) |-> [align |-> CAlign(Scalar(fields[i])), size |-> Width(fields[i])]]
  BY DEF CFields, Struct
<1> HIDE DEF CFields
<1> QED
  BY <1>1, <1>2

\* A C value has a size, and its scalars do not overlap.
LEMMA CValue ==
  ASSUME NEW t \in CTypes
  PROVE  /\ CSize(t) \in Fours /\ CAlign(t) \in {4, 8, 16}
         /\ GoodPieces(CPieces(t), CSize(t))
<1>1. CASE t \in [tag : ScalarTags \union {"void"}, fields : {<<>>}]
  <2>1. t.tag \in ScalarTags \union {"void"} /\ t.tag # "struct" /\ t.fields = <<>>
    BY <1>1 DEF ScalarTags
  <2>2. CSize(t) = Width(t.tag) /\ Width(t.tag) \in Fours
    <3>1. CSize(t) = Width(t.tag)
      BY <2>1 DEF CSize
    <3>2. CASE t.tag = "void" BY <3>1, <3>2 DEF Width, Fours
    <3>3. CASE t.tag \in ScalarTags BY <3>1, <3>3, CScalar
    <3> QED BY <2>1, <3>2, <3>3
  <2>3. CAlign(t) \in {4, 8, 16}
    BY <2>1 DEF CAlign, Width, ScalarTags
  <2>4. CASE t.tag = "void"
    <3>1. CPieces(t) = <<>>
      BY <2>1, <2>4, ScalarPieces
    <3> QED
      BY <2>2, <2>3, <2>4, <3>1 DEF GoodPieces, Width
  <2>5. CASE t.tag = "longdouble"
    <3>1. CPieces(t) = <<[at |-> 0, size |-> 8], [at |-> 8, size |-> 8]>>
      BY <2>1, <2>5, ScalarPieces
    <3> QED
      BY <2>2, <2>3, <2>5, <3>1 DEF GoodPieces, Width, Fours
  <2>6. CASE t.tag \notin {"void", "longdouble"}
    <3>1. CPieces(t) = <<[at |-> 0, size |-> Width(t.tag)]>>
      BY <2>1, <2>6, ScalarPieces
    <3> QED
      BY <2>2, <2>3, <3>1 DEF GoodPieces, Fours
  <2> QED
    BY <2>1, <2>4, <2>5, <2>6
<1>2. CASE t \in [tag : {"struct"}, fields : Seq(ScalarTags)]
  <2>1. PICK f \in Seq(ScalarTags) : t = Struct(f)
    BY <1>2 DEF Struct
  <2> DEFINE x == CFields(t)
             n == Len(f)
  <2>2. x \in Seq(Extent) /\ Len(x) = n
    BY <2>1, CFieldExtents
  <2>3. \A i \in 1..n : x[i].size = Width(f[i]) /\ x[i].size \in Fours
    <3>1. x = CFields(Struct(f))
      BY <2>1
    <3> HIDE DEF x
    <3> TAKE i \in 1..n
    <3>2. x[i] = [align |-> CAlign(Scalar(f[i])), size |-> Width(f[i])]
      BY <3>1, CFieldExtents
    <3>3. f[i] \in ScalarTags
      OBVIOUS
    <3> QED
      BY <3>2, <3>3, CScalar
  <2>4. /\ Place(x).end \in Fours
        /\ Place(x).at \in [1..n -> Fours]
        /\ \A i \in 1..n : Place(x).at[i] + x[i].size <= Place(x).end
        /\ \A i, j \in 1..n : i < j => Place(x).at[i] + x[i].size <= Place(x).at[j]
    <3> HIDE DEF x, n
    <3> QED
      BY <2>2, Placed
  <2>5. t.tag = "struct" /\ t.fields = f
    BY <2>1 DEF Struct
  <2>6. CAlign(t) \in {4, 8, 16}
    BY <2>5 DEF CAlign
  <2>7. CSize(t) \in Fours /\ CSize(t) >= Place(x).end
    <3>1. CSize(t) = alignUp(Place(x).end, CAlign(t))
      BY <2>5 DEF CSize
    <3> HIDE DEF x
    <3> QED
      BY <3>1, <2>4, <2>6, AlignUp DEF Aligns
  <2>8. CASE f = <<"longdouble">>
    <3>1. n = 1 /\ f[1] = "longdouble"
      BY <2>8
    <3>2. CPieces(t) = <<[at |-> 0, size |-> 8], [at |-> 8, size |-> 8]>>
      BY <2>5, <2>8, StructPieces
    <3>3. x[1].size = 16
      BY <2>3, <3>1 DEF Width
    <3>4. CSize(t) >= 16 /\ CSize(t) \in Nat
      <4> HIDE DEF x
      <4>1. Place(x).at[1] \in Nat /\ Place(x).end \in Nat /\ CSize(t) \in Nat
        BY <2>4, <2>7, <3>1 DEF Fours
      <4>2. Place(x).at[1] + 16 <= Place(x).end /\ Place(x).end <= CSize(t)
        BY <2>4, <2>7, <3>1, <3>3, <4>1
      <4> QED
        BY <4>1, <4>2
    <3> QED
      BY <2>6, <2>7, <3>2, <3>4 DEF GoodPieces, Fours
  <2>9. CASE f # <<"longdouble">>
    <3>0. CPieces(t) = [i \in 1..n |-> [at |-> Place(x).at[i], size |-> Width(f[i])]]
      <4>1. CPieces(t) = [i \in DOMAIN t.fields |-> [at   |-> Place(CFields(t)).at[i],
                                                     size |-> Width(t.fields[i])]]
        BY <2>5, <2>9, StructPieces
      <4> QED
        BY <2>5, <4>1
    <3> HIDE DEF x
    <3>1. /\ CPieces(t) \in Seq([at : Fours, size : Fours]) /\ Len(CPieces(t)) = n
          /\ \A i \in 1..n : CPieces(t)[i] = [at |-> Place(x).at[i], size |-> x[i].size]
      <4>1. n \in Nat
        BY <2>1
      <4> DEFINE q(i) == [at |-> Place(x).at[i], size |-> Width(f[i])]
      <4>2. \A i \in 1..n : q(i) = [at |-> Place(x).at[i], size |-> x[i].size]
        BY <2>3
      <4>3. \A i \in 1..n : q(i) \in [at : Fours, size : Fours]
        BY <2>3, <2>4, <4>2
      <4>4. CPieces(t) = [i \in 1..n |-> q(i)]
        BY <3>0
      <4> HIDE DEF n, q
      <4> QED
        BY <4>1, <4>2, <4>3, <4>4
    <3>2. \A i \in 1..n : CPieces(t)[i].at = Place(x).at[i] /\ CPieces(t)[i].size = x[i].size
      <4> TAKE i \in 1..n
      <4>1. CPieces(t)[i] = [at |-> Place(x).at[i], size |-> x[i].size]
        BY <3>1
      <4> QED
        BY <4>1
    <3>3. \A i \in 1..n : CPieces(t)[i].at + CPieces(t)[i].size <= CSize(t)
      <4> TAKE i \in 1..n
      <4>1. Place(x).at[i] \in Nat /\ x[i].size \in Nat /\ Place(x).end \in Nat /\ CSize(t) \in Nat
        BY <2>3, <2>4, <2>7 DEF Fours
      <4>2. Place(x).at[i] + x[i].size <= Place(x).end /\ Place(x).end <= CSize(t)
        BY <4>1, <2>4, <2>7
      <4>3. Place(x).at[i] + x[i].size <= CSize(t)
        BY <4>1, <4>2
      <4> QED
        BY <4>3, <3>2
    <3>4. \A i, j \in 1..n : i < j => CPieces(t)[i].at + CPieces(t)[i].size <= CPieces(t)[j].at
      BY <3>2, <2>4
    <3>5. GoodPieces(CPieces(t), CSize(t))
      BY <3>1, <3>3, <3>4 DEF GoodPieces
    <3> QED
      BY <2>6, <2>7, <3>5
  <2> QED
    BY <2>8, <2>9
<1> QED
  BY <1>1, <1>2 DEF CTypes

-----------------------------------------------------------------------------
(* Types of the descriptor.                                                *)

ValTags == {"i32", "i64", "f32", "f64", "longdouble"}
PTypes  == [tag : ValTags \union {"void"}, fields : {<<>>}]
             \union [tag : {"struct"}, fields : Seq(ValTags)]

\* The size and alignment of a type of the descriptor, and its pieces.
LEMMA PValue ==
  ASSUME NEW p \in PTypes
  PROVE  ByteSize(p) \in Fours /\ naturalAlign(p) \in Aligns
<1>1. CASE p \in [tag : ValTags \union {"void"}, fields : {<<>>}]
  BY <1>1 DEF ByteSize, naturalAlign, Fours, Aligns, ValTags
<1>2. CASE p \in [tag : {"struct"}, fields : Seq(ValTags)]
  <2>1. p.tag = "struct" /\ p.fields \in Seq(ValTags)
    BY <1>2
  <2> DEFINE Of(tag) == CASE tag = "void" -> 0 [] tag \in {"i32", "f32"} -> 4
                          [] tag = "longdouble" -> 16 [] OTHER -> 8
             x == [i \in DOMAIN p.fields |-> [align |-> 1, size |-> Of(p.fields[i])]]
  <2>2. \A i \in 1..Len(p.fields) : Of(p.fields[i]) \in Fours
    BY <2>1 DEF Fours, ValTags
  <2>3. x \in Seq(Extent)
    <3> HIDE DEF Of
    <3>1. \A i \in 1..Len(p.fields) : [align |-> 1, size |-> Of(p.fields[i])] \in Extent
      BY <2>2 DEF Extent, Aligns
    <3> QED
      BY <2>1, <3>1
  <2>4. ByteSize(p) = Place(x).end
    BY <2>1 DEF ByteSize
  <2>5. ByteSize(p) \in Fours
    <3> HIDE DEF x
    <3> QED
      BY <2>3, <2>4, Placed
  <2> QED
    BY <2>1, <2>5 DEF naturalAlign, Aligns
<1> QED
  BY <1>1, <1>2 DEF PTypes

\* What encode_type makes of a C type is a type of the descriptor.
LEMMA EncodedType ==
  ASSUME NEW t \in CTypes
  PROVE  encode_type(t) \in PTypes
<1> DEFINE u == unbox_single_struct(t)
<1>1. u \in CTypes
  <2>1. CASE t.tag # "struct" \/ CSize(t) > 16 \/ Len(t.fields) > 1
    BY <2>1 DEF unbox_single_struct
  <2>2. CASE ~(t.tag # "struct" \/ CSize(t) > 16 \/ Len(t.fields) > 1)
    <3>1. t.fields \in Seq(ScalarTags)
      BY <2>2 DEF CTypes, ScalarTags
    <3>2. t.fields # <<>> => t.fields[1] \in ScalarTags
      BY <3>1
    <3> QED
      BY <2>2, <3>2 DEF unbox_single_struct, CTypes, Scalar
  <2> QED
    BY <2>1, <2>2
<1>2. encode_type(t) = IF u.tag # "struct" THEN Scalar(ValType(u.tag))
                       ELSE IF CSize(u) > 16 THEN Scalar("i32")
                       ELSE Struct([i \in DOMAIN u.fields |-> ValType(u.fields[i])])
  BY DEF encode_type
<1> HIDE DEF u
<1>3. CASE u.tag # "struct"
  <2>1. u.tag \in ScalarTags \union {"void"}
    BY <1>1, <1>3 DEF CTypes
  <2> QED
    BY <1>2, <1>3, <2>1 DEF Scalar, ValType, PTypes, ValTags, ScalarTags
<1>4. CASE u.tag = "struct"
  <2>1. u.fields \in Seq(ScalarTags)
    BY <1>1, <1>4 DEF CTypes, ScalarTags
  <2>2. \A i \in DOMAIN u.fields : ValType(u.fields[i]) \in ValTags
    BY <2>1 DEF ScalarTags, ValType, ValTags
  <2>3. [i \in DOMAIN u.fields |-> ValType(u.fields[i])] \in Seq(ValTags)
    BY <2>1, <2>2
  <2> QED
    BY <1>2, <1>4, <2>3 DEF Scalar, Struct, PTypes, ValTags
<1> QED
  BY <1>3, <1>4

\* What a result is in the descriptor tells what it is in C.
LEMMA Returned ==
  ASSUME NEW t \in CTypes, CSize(t) <= 16
  PROVE  LET p == encode_type(t)
         IN /\ HasResult(p) =>
                 /\ ByteSize(p) \in {4, 8} /\ naturalAlign(p) \in {4, 8}
                 /\ Len(CPieces(t)) = 1
                 /\ CPieces(t)[1] = [at |-> 0, size |-> ByteSize(p)]
            /\ ~HasResult(p) /\ ~IsAggregate(p) => Len(CPieces(t)) = 0
<1> DEFINE p == encode_type(t)
<1>0. ~(CSize(t) > 16)
  BY CValue DEF Fours
<1> USE DEF IsAggregate, HasResult
<1>1. CASE t.tag # "struct"
  <2>1. t.tag \in ScalarTags \union {"void"}
    BY <1>1 DEF CTypes
  <2>2. p = Scalar(ValType(t.tag))
    BY <1>1 DEF encode_type, unbox_single_struct
  <2>0. t.fields = <<>>
    BY <1>1 DEF CTypes
  <2>3. CASE t.tag \in {"void", "longdouble"}
    BY <2>0, <2>1, <2>2, <2>3, ScalarPieces DEF Scalar, ValType
  <2>4. CASE t.tag \notin {"void", "longdouble"}
    <3>1. CPieces(t) = <<[at |-> 0, size |-> Width(t.tag)]>>
      BY <2>0, <2>1, <2>4, ScalarPieces
    <3> QED
      BY <2>1, <2>2, <2>4, <3>1 DEF Scalar, ValType, Width, ByteSize, naturalAlign, ScalarTags
  <2> QED
    BY <2>3, <2>4
<1>2. CASE t.tag = "struct"
  <2>1. PICK f \in Seq(ScalarTags) : t = Struct(f)
    BY <1>2 DEF CTypes, ScalarTags, Struct
  <2>2. t.fields = f
    BY <2>1 DEF Struct
  <2>3. f # <<"longdouble">> =>
          CPieces(t) = [i \in 1..Len(f) |-> [at |-> Place(CFields(t)).at[i], size |-> Width(f[i])]]
    <3> SUFFICES ASSUME f # <<"longdouble">>
                 PROVE  CPieces(t) = [i \in 1..Len(f) |-> [at |-> Place(CFields(t)).at[i], size |-> Width(f[i])]]
      OBVIOUS
    <3>1. CPieces(t) = [i \in DOMAIN t.fields |-> [at   |-> Place(CFields(t)).at[i],
                                                   size |-> Width(t.fields[i])]]
      BY <1>2, <2>2, StructPieces
    <3> QED
      BY <2>2, <3>1
  <2>4. CASE Len(f) = 0
    <3>1. f = <<>>
      BY <2>4
    <3>2. p = Scalar("void")
      <4>1. unbox_single_struct(t) = Scalar("void")
        BY <1>0, <1>2, <2>2, <2>4, <3>1 DEF unbox_single_struct
      <4> QED
        BY <4>1 DEF encode_type, Scalar, ValType
    <3>3. f # <<"longdouble">>
      BY <3>1
    <3> QED
      BY <2>3, <2>4, <3>2, <3>3 DEF Scalar
  <2>5. CASE Len(f) = 1
    <3>1. f # <<>> /\ f[1] \in ScalarTags
      BY <2>5
    <3>2. unbox_single_struct(t) = Scalar(f[1])
      BY <1>0, <1>2, <2>2, <2>5, <3>1 DEF unbox_single_struct
    <3>3. p = Scalar(ValType(f[1]))
      BY <3>1, <3>2 DEF encode_type, Scalar, ScalarTags
    <3>4. Place(CFields(t)).at[1] = 0
      <4> DEFINE x == CFields(t)
      <4>1. /\ x \in Seq(Extent) /\ Len(x) = 1
            /\ x[1] = [align |-> CAlign(Scalar(f[1])), size |-> Width(f[1])]
        BY <2>1, <2>5, CFieldExtents
      <4> HIDE DEF x
      <4>2. Place(x).at[1] = alignUp(0, CAlign(Scalar(f[1])))
        BY <4>1, Placed
      <4>3. CAlign(Scalar(f[1])) \in {4, 8, 16}
        BY <3>1, CScalar
      <4> QED
        BY <4>2, <4>3 DEF x, alignUp
    <3>5. f[1] # "longdouble" =>
            Len(CPieces(t)) = 1 /\ CPieces(t)[1] = [at |-> 0, size |-> Width(f[1])]
      BY <2>3, <2>5, <3>4
    <3>6. CASE f[1] = "longdouble"
      BY <3>3, <3>6 DEF Scalar, ValType
    <3>7. CASE f[1] # "longdouble"
      <4>1. ByteSize(p) = Width(f[1]) /\ ByteSize(p) \in {4, 8} /\ naturalAlign(p) \in {4, 8}
        BY <3>1, <3>3, <3>7 DEF Scalar, ValType, Width, ByteSize, naturalAlign, ScalarTags
      <4>2. HasResult(p)
        BY <3>1, <3>3, <3>7 DEF Scalar, ValType, ScalarTags
      <4> QED
        BY <3>5, <3>7, <4>1, <4>2
    <3> QED
      BY <3>6, <3>7
  <2>6. CASE Len(f) > 1
    <3>1. p.tag = "struct"
      BY <1>0, <1>2, <2>2, <2>6 DEF encode_type, unbox_single_struct, Struct
    <3> QED
      BY <3>1
  <2>7. Len(f) = 0 \/ Len(f) = 1 \/ Len(f) > 1
    <3>1. \A n \in Nat : n = 0 \/ n = 1 \/ n > 1
      OBVIOUS
    <3>2. Len(f) \in Nat
      OBVIOUS
    <3> QED
      BY <3>1, <3>2, Zenon
  <2> QED
    BY <2>4, <2>5, <2>6, <2>7, Zenon
<1> QED
  BY <1>1, <1>2

-----------------------------------------------------------------------------
(* Frames.                                                                 *)

\* What is assumed of a signature.
LEMMA CifOK ==
  ASSUME NEW c \in Cifs
  PROVE  /\ c.args \in Seq(CTypes) /\ c.rtype \in CTypes /\ c.varargs \in BOOLEAN
         /\ c.nfixed \in Nat /\ c.nfixed <= Len(c.args) /\ CSize(c.rtype) <= 16
BY CifsAssumption

\* The frame of the caller: arguments, then the pointers to them, then the result.
LEMMA CallerFrameOK ==
  ASSUME NEW c \in Cifs
  PROVE  LET f == CallerFrame(c)
         IN /\ f.args \in [1..Len(c.args) -> Fours]
            /\ f.avalue \in Fours /\ f.rvalue \in Fours /\ f.size \in Fours
            /\ \A i \in 1..Len(c.args) : f.args[i] + CSize(c.args[i]) <= f.avalue
            /\ \A i, j \in 1..Len(c.args) : i < j => f.args[i] + CSize(c.args[i]) <= f.args[j]
            /\ f.avalue + 4 * Len(c.args) <= f.rvalue
            /\ f.rvalue + 16 <= f.size
            /\ f.size % 16 = 0
<1> DEFINE x == CExtents(c.args)
           n == Len(c.args)
           placed == Place(x)
           avalue == alignUp(placed.end, 4)
           after  == avalue + 4 * n
           rvalue == alignUp(after, 16)
           size   == alignUp(rvalue + 16, 16)
<1>1. c.args \in Seq(CTypes) /\ n \in Nat
  BY CifOK
<1>2. /\ x \in Seq(Extent) /\ Len(x) = n
      /\ \A i \in 1..n : x[i].size = CSize(c.args[i])
  <2>1. \A i \in 1..n : [align |-> CAlign(c.args[i]), size |-> CSize(c.args[i])] \in Extent
    BY <1>1, CValue DEF Extent, Aligns
  <2>2. x = [i \in 1..n |-> [align |-> CAlign(c.args[i]), size |-> CSize(c.args[i])]]
    BY <1>1 DEF CExtents
  <2> HIDE DEF x
  <2> QED
    BY <1>1, <2>1, <2>2
<1>3. /\ placed.end \in Fours
      /\ placed.at \in [1..n -> Fours]
      /\ \A i \in 1..n : placed.at[i] + x[i].size <= placed.end
      /\ \A i, j \in 1..n : i < j => placed.at[i] + x[i].size <= placed.at[j]
  <2> HIDE DEF x, n
  <2> QED
    BY <1>2, Placed
<1>4. /\ CallerFrame(c).args = placed.at /\ CallerFrame(c).avalue = avalue
      /\ CallerFrame(c).rvalue = rvalue /\ CallerFrame(c).size = size
  BY DEF CallerFrame
<1> HIDE DEF placed, x, n
<1>5. avalue \in Fours /\ avalue >= placed.end
  BY <1>3, AlignUp DEF Aligns
<1> HIDE DEF avalue
<1>6. after \in Fours
  BY <1>1, <1>5 DEF Fours
<1> HIDE DEF after
<1>7. rvalue \in Fours /\ rvalue >= after
  BY <1>6, AlignUp DEF Aligns
<1> HIDE DEF rvalue
<1>8. rvalue + 16 \in Fours
  BY <1>7 DEF Fours
<1>9. size \in Fours /\ size >= rvalue + 16 /\ size % 16 = 0
  BY <1>8, AlignUp DEF Aligns
<1> HIDE DEF size
<1>10. \A i \in 1..n : placed.at[i] + CSize(c.args[i]) <= avalue
  <2> TAKE i \in 1..n
  <2>1. c.args[i] \in CTypes
    BY <1>1 DEF n
  <2>2. placed.at[i] \in Nat /\ CSize(c.args[i]) \in Nat /\ avalue \in Nat /\ placed.end \in Nat
    BY <1>3, <1>5, <2>1, CValue DEF Fours
  <2>3. placed.at[i] + CSize(c.args[i]) <= placed.end
    BY <1>2, <1>3
  <2> QED
    BY <2>2, <2>3, <1>5
<1>11. \A i, j \in 1..n : i < j => placed.at[i] + CSize(c.args[i]) <= placed.at[j]
  BY <1>2, <1>3
<1>12. avalue + 4 * n <= rvalue
  BY <1>7 DEF after
<1> QED
  BY <1>3, <1>4, <1>5, <1>7, <1>9, <1>10, <1>11, <1>12 DEF n

\* What a descriptor's parameters take.
LEMMA ParamExtents ==
  ASSUME NEW ps \in Seq(PTypes)
  PROVE  /\ Extents(ps) \in Seq(Extent) /\ Len(Extents(ps)) = Len(ps)
         /\ \A i \in 1..Len(ps) : Extents(ps)[i] = [align |-> naturalAlign(ps[i]), size |-> ByteSize(ps[i])]
<1>1. \A i \in 1..Len(ps) : [align |-> naturalAlign(ps[i]), size |-> ByteSize(ps[i])] \in Extent
  BY PValue DEF Extent
<1>2. Extents(ps) = [i \in 1..Len(ps) |-> [align |-> naturalAlign(ps[i]), size |-> ByteSize(ps[i])]]
  BY DEF Extents
<1> HIDE DEF Extents
<1> QED
  BY <1>1, <1>2

\* What build_sig makes of a signature.
LEMMA SigOK ==
  ASSUME NEW c \in Cifs
  PROVE  /\ build_sig(c).Params \in Seq(PTypes) /\ Len(build_sig(c).Params) = Len(c.args)
         /\ \A i \in 1..Len(c.args) : build_sig(c).Params[i] = encode_type(c.args[i])
         /\ build_sig(c).Return = encode_type(c.rtype) /\ build_sig(c).Return \in PTypes
         /\ build_sig(c).Varargs = c.varargs /\ build_sig(c).NFixedArgs = c.nfixed
<1>1. c.args \in Seq(CTypes) /\ c.rtype \in CTypes
  BY CifOK
<1>2. \A i \in 1..Len(c.args) : encode_type(c.args[i]) \in PTypes
  BY <1>1, EncodedType
<1>3. build_sig(c).Params = [i \in 1..Len(c.args) |-> encode_type(c.args[i])]
  BY <1>1 DEF build_sig
<1>4. /\ build_sig(c).Params \in Seq(PTypes) /\ Len(build_sig(c).Params) = Len(c.args)
      /\ \A i \in 1..Len(c.args) : build_sig(c).Params[i] = encode_type(c.args[i])
  <2> DEFINE ps == build_sig(c).Params
  <2> HIDE DEF ps
  <2>1. ps = [i \in 1..Len(c.args) |-> encode_type(c.args[i])]
    BY <1>3 DEF ps
  <2>2. /\ ps \in Seq(PTypes) /\ Len(ps) = Len(c.args)
        /\ \A i \in 1..Len(c.args) : ps[i] = encode_type(c.args[i])
    BY <1>1, <1>2, <2>1
  <2> QED
    BY <2>2 DEF ps
<1>5. /\ build_sig(c).Return = encode_type(c.rtype)
      /\ build_sig(c).Varargs = c.varargs /\ build_sig(c).NFixedArgs = c.nfixed
  BY DEF build_sig
<1> QED
  BY <1>1, <1>4, <1>5, EncodedType

\* The frame of a closure trampoline: arguments, then the pointers to them, then the
\* result.
LEMMA ClosureFrameOK ==
  ASSUME NEW c \in Cifs
  PROVE  LET sig == build_sig(c)
             f == ClosureFrame(sig)
         IN /\ f.args \in [1..Len(c.args) -> Fours]
            /\ f.avalue \in Fours /\ f.ret \in Fours /\ f.size \in Fours
            /\ \A i \in 1..Len(c.args) : f.args[i] + ByteSize(sig.Params[i]) <= f.avalue
            /\ \A i, j \in 1..Len(c.args) : i < j => f.args[i] + ByteSize(sig.Params[i]) <= f.args[j]
            /\ f.avalue + 4 * Len(c.args) <= f.ret
            /\ HasResult(sig.Return) => f.ret + ByteSize(sig.Return) <= f.size
            /\ f.ret <= f.size
            /\ f.size % 16 = 0
<1> DEFINE sig == build_sig(c)
           x == Extents(sig.Params)
           n == Len(c.args)
           placed == Place(x)
           avalue == alignUp(placed.end, 4)
           end == avalue + 4 * n
           ret == IF HasResult(sig.Return) THEN alignUp(end, naturalAlign(sig.Return)) ELSE end
           last == IF HasResult(sig.Return) THEN ret + ByteSize(sig.Return) ELSE end
           size == alignUp(last, 16)
<1>1. /\ sig.Params \in Seq(PTypes) /\ Len(sig.Params) = n /\ n \in Nat
      /\ sig.Return \in PTypes
  BY SigOK, CifOK
<1>2. ByteSize(sig.Return) \in Fours /\ naturalAlign(sig.Return) \in Aligns
  BY <1>1, PValue
<1>3. /\ x \in Seq(Extent) /\ Len(x) = n
      /\ \A i \in 1..n : x[i].size = ByteSize(sig.Params[i])
  <2> HIDE DEF sig, n
  <2>1. /\ x \in Seq(Extent) /\ Len(x) = n
        /\ \A i \in 1..n : x[i] = [align |-> naturalAlign(sig.Params[i]), size |-> ByteSize(sig.Params[i])]
    BY <1>1, ParamExtents
  <2> HIDE DEF x
  <2> QED
    BY <2>1
<1>4. /\ placed.end \in Fours
      /\ placed.at \in [1..n -> Fours]
      /\ \A i \in 1..n : placed.at[i] + x[i].size <= placed.end
      /\ \A i, j \in 1..n : i < j => placed.at[i] + x[i].size <= placed.at[j]
  <2> HIDE DEF x, n
  <2> QED
    BY <1>3, Placed
<1>5. /\ ClosureFrame(sig).args = placed.at /\ ClosureFrame(sig).avalue = avalue
      /\ ClosureFrame(sig).ret = ret /\ ClosureFrame(sig).size = size
  <2> HIDE DEF sig, n
  <2> QED
    BY <1>1 DEF ClosureFrame
<1> HIDE DEF placed, x, n, sig
<1>6. avalue \in Fours /\ avalue >= placed.end
  BY <1>4, AlignUp DEF Aligns
<1> HIDE DEF avalue
<1>7. end \in Fours
  BY <1>1, <1>6 DEF Fours
<1> HIDE DEF end
<1>8. ret \in Fours /\ ret >= end
  BY <1>2, <1>7, AlignUp DEF Fours
<1> HIDE DEF ret
<1>9. last \in Fours /\ ret <= last
  <2>1. CASE HasResult(sig.Return)
    BY <2>1, <1>2, <1>8 DEF Fours
  <2>2. CASE ~HasResult(sig.Return)
    BY <2>2, <1>7 DEF Fours, ret
  <2> QED
    BY <2>1, <2>2
<1>10. HasResult(sig.Return) => last = ret + ByteSize(sig.Return)
  OBVIOUS
<1> HIDE DEF last
<1>11. size \in Fours /\ size >= last /\ size % 16 = 0
  BY <1>9, AlignUp DEF Aligns
<1> HIDE DEF size
<1>12. \A i \in 1..n : placed.at[i] + ByteSize(sig.Params[i]) <= avalue
  <2> TAKE i \in 1..n
  <2>1. sig.Params[i] \in PTypes
    BY <1>1
  <2>2. placed.at[i] \in Nat /\ ByteSize(sig.Params[i]) \in Nat /\ avalue \in Nat /\ placed.end \in Nat
    BY <1>4, <1>6, <2>1, PValue DEF Fours
  <2>3. placed.at[i] + ByteSize(sig.Params[i]) <= placed.end
    BY <1>3, <1>4
  <2> QED
    BY <2>2, <2>3, <1>6
<1>13. \A i, j \in 1..n : i < j => placed.at[i] + ByteSize(sig.Params[i]) <= placed.at[j]
  BY <1>3, <1>4
<1>14. avalue + 4 * n <= ret
  BY <1>8 DEF end
<1>15. ret <= size /\ (HasResult(sig.Return) => ret + ByteSize(sig.Return) <= size)
  BY <1>8, <1>9, <1>10, <1>11 DEF Fours
<1> QED
  BY <1>4, <1>5, <1>6, <1>8, <1>11, <1>12, <1>13, <1>14, <1>15 DEF n, sig

\* The buffer of the variadic arguments.
LEMMA VarargsOK ==
  ASSUME NEW c \in Cifs
  PROVE  LET sig == build_sig(c)
             layout == VarargsLayout(sig)
             m == Len(c.args) - c.nfixed
         IN /\ m \in Nat /\ layout.size \in Fours /\ layout.size % 16 = 0
            /\ layout.at \in [1..m -> Fours]
            /\ \A j \in 1..m : layout.at[j] + ByteSize(sig.Params[c.nfixed + j]) <= layout.size
            /\ \A i, j \in 1..m :
                 i < j => layout.at[i] + ByteSize(sig.Params[c.nfixed + i]) <= layout.at[j]
<1> DEFINE sig == build_sig(c)
           m == Len(c.args) - c.nfixed
           ps == SubSeq(sig.Params, sig.NFixedArgs + 1, Len(sig.Params))
           x == Extents(ps)
           placed == Place(x)
           size == alignUp(placed.end, 16)
<1>1. /\ sig.Params \in Seq(PTypes) /\ Len(sig.Params) = Len(c.args)
      /\ sig.NFixedArgs = c.nfixed
      /\ m \in Nat /\ c.nfixed \in Nat /\ Len(c.args) \in Nat
  BY SigOK, CifOK
<1>2. /\ ps \in Seq(PTypes) /\ Len(ps) = m
      /\ \A j \in 1..m : ps[j] = sig.Params[c.nfixed + j] /\ sig.Params[c.nfixed + j] \in PTypes
  <2> DEFINE q == sig.Params
  <2>1. q \in Seq(PTypes) /\ Len(q) = Len(c.args) /\ ps = SubSeq(q, c.nfixed + 1, Len(q))
    BY <1>1
  <2> HIDE DEF sig, q, ps
  <2>2. \A i \in (c.nfixed + 1)..Len(q) : q[i] \in PTypes
    BY <1>1, <2>1
  <2>3. c.nfixed + 1 \in Int /\ Len(q) \in Int
    BY <1>1, <2>1
  <2>4. /\ ps \in Seq(PTypes)
        /\ Len(ps) = IF c.nfixed + 1 <= Len(q) THEN Len(q) - (c.nfixed + 1) + 1 ELSE 0
        /\ \A i \in 1..Len(q) - (c.nfixed + 1) + 1 : ps[i] = q[c.nfixed + 1 + i - 1]
    BY <2>1, <2>2, <2>3, SubSeqProperties
  <2>5. Len(ps) = m
    BY <1>1, <2>1, <2>4
  <2>6. \A j \in 1..m : ps[j] = q[c.nfixed + j] /\ q[c.nfixed + j] \in PTypes
    <3> TAKE j \in 1..m
    <3>1. c.nfixed + 1 + j - 1 = c.nfixed + j /\ c.nfixed + j \in (c.nfixed + 1)..Len(q)
          /\ j \in 1..Len(q) - (c.nfixed + 1) + 1
      BY <1>1, <2>1, SMTT(30)
    <3> QED
      BY <3>1, <2>2, <2>4
  <2> QED
    BY <2>4, <2>5, <2>6 DEF q
<1> HIDE DEF ps, sig, m
<1>3. /\ x \in Seq(Extent) /\ Len(x) = m
      /\ \A i \in 1..m : x[i].size = ByteSize(ps[i])
  <2>1. /\ x \in Seq(Extent) /\ Len(x) = m
        /\ \A i \in 1..m : x[i] = [align |-> naturalAlign(ps[i]), size |-> ByteSize(ps[i])]
    BY <1>2, ParamExtents
  <2> HIDE DEF x
  <2> QED
    BY <2>1
<1>4. /\ placed.end \in Fours
      /\ placed.at \in [1..m -> Fours]
      /\ \A i \in 1..m : placed.at[i] + x[i].size <= placed.end
      /\ \A i, j \in 1..m : i < j => placed.at[i] + x[i].size <= placed.at[j]
  <2> HIDE DEF x
  <2> QED
    BY <1>3, Placed
<1>5. VarargsLayout(sig).at = placed.at /\ VarargsLayout(sig).size = size
  BY DEF VarargsLayout, ps
<1> HIDE DEF placed, x
<1>6. size \in Fours /\ size >= placed.end /\ size % 16 = 0
  BY <1>4, AlignUp DEF Aligns
<1> HIDE DEF size
<1>7. \A j \in 1..m : placed.at[j] + ByteSize(sig.Params[c.nfixed + j]) <= size
  <2> TAKE j \in 1..m
  <2>1. /\ placed.at[j] \in Nat /\ ByteSize(sig.Params[c.nfixed + j]) \in Nat
        /\ size \in Nat /\ placed.end \in Nat
    BY <1>2, <1>4, <1>6, PValue DEF Fours
  <2>2. placed.at[j] + ByteSize(sig.Params[c.nfixed + j]) <= placed.end
    BY <1>2, <1>3, <1>4
  <2> QED
    BY <2>1, <2>2, <1>6
<1>8. \A i, j \in 1..m : i < j => placed.at[i] + ByteSize(sig.Params[c.nfixed + i]) <= placed.at[j]
  BY <1>2, <1>3, <1>4
<1> QED
  BY <1>1, <1>4, <1>5, <1>6, <1>7, <1>8 DEF m, sig

-----------------------------------------------------------------------------
(* FlattenSeq.                                                             *)

FlattenFrom(ss, e) == [i \in 1..Len(ss) |-> IF i = 1 THEN ss[i] ELSE e[i - 1] \o ss[i]]

FlatUpto(ss, n, e) ==
  \A i \in 1..n : e[i] = IF i = 1 THEN ss[i] ELSE e[i - 1] \o ss[i]

\* FlattenSeq is a recursive function: what the definition chooses.
LEMMA FlattenChosen ==
  \A ss : Len(ss) # 0 =>
    \E e : FlattenSeq(ss) = e[Len(ss)] /\ e = CHOOSE f : f = FlattenFrom(ss, f)
BY DEF FlattenSeq, FlattenFrom

\* There is a function that satisfies its equation.
LEMMA FlatExists ==
  ASSUME NEW S, NEW ss \in Seq(S)
  PROVE  \E e : e = FlattenFrom(ss, e)
<1> DEFINE T == {n \in 0..Len(ss) : \E e : DOMAIN e = 1..n /\ e = [i \in 1..n |-> e[i]] /\ FlatUpto(ss, n, e)}
<1>1. 0 \in T
  <2> DEFINE e == [i \in 1..0 |-> 0]
  <2>1. DOMAIN e = 1..0 /\ e = [i \in 1..0 |-> e[i]] /\ FlatUpto(ss, 0, e)
    BY DEF FlatUpto
  <2> HIDE DEF e
  <2>2. 0 \in 0..Len(ss)
    OBVIOUS
  <2>3. \E f : DOMAIN f = 1..0 /\ f = [i \in 1..0 |-> f[i]] /\ FlatUpto(ss, 0, f)
    BY <2>1
  <2> QED
    BY <2>2, <2>3
<1>2. ASSUME NEW i \in 0..Len(ss), i # Len(ss), i \in T
      PROVE  i + 1 \in T
  <2> DEFINE n == i + 1
  <2>1. n \in 1..Len(ss) /\ n - 1 = i
    BY <1>2
  <2>2. PICK e : DOMAIN e = 1..i /\ e = [j \in 1..i |-> e[j]] /\ FlatUpto(ss, i, e)
    BY <1>2
  <2> DEFINE f == [j \in 1..n |-> IF j = n THEN (IF n = 1 THEN ss[n] ELSE e[i] \o ss[n]) ELSE e[j]]
  <2>3. FlatUpto(ss, n, f)
    <3> SUFFICES ASSUME NEW j \in 1..n
                 PROVE  f[j] = IF j = 1 THEN ss[j] ELSE f[j - 1] \o ss[j]
      BY DEF FlatUpto
    <3>1. CASE j = n BY <3>1, <2>1
    <3>2. CASE j # n
      <4>1. j \in 1..i /\ f[j] = e[j] /\ (j # 1 => f[j - 1] = e[j - 1])
        BY <3>2, <2>1
      <4> QED
        BY <4>1, <2>2 DEF FlatUpto
    <3> QED BY <3>1, <3>2
  <2>4. DOMAIN f = 1..n /\ f = [j \in 1..n |-> f[j]]
    OBVIOUS
  <2> HIDE DEF f
  <2> QED
    BY <2>1, <2>3, <2>4
<1> HIDE DEF T
<1>3. \A i \in 0..Len(ss) : i # Len(ss) /\ i \in T => i + 1 \in T
  BY <1>2
<1>4. Len(ss) \in T
  <2>1. Len(ss) \in Nat
    OBVIOUS
  <2>2. \A i \in 0..Len(ss) : i \in T
    BY <2>1, <1>1, <1>3, Induction
  <2> QED
    BY <2>1, <2>2
<1>5. PICK e : DOMAIN e = 1..Len(ss) /\ e = [i \in 1..Len(ss) |-> e[i]] /\ FlatUpto(ss, Len(ss), e)
  BY <1>4 DEF T
<1>6. e = FlattenFrom(ss, e)
  BY <1>5 DEF FlatUpto, FlattenFrom
<1> QED
  BY <1>6

\* A flat sequence and where each of the first n sequences begins in it.
Flattens(ss, n, off, flat, S) ==
  /\ off \in [0..n -> Nat] /\ off[0] = 0
  /\ \A i \in 1..n : off[i] = off[i - 1] + Len(ss[i]) /\ off[i] <= off[n]
  /\ flat \in Seq(S) /\ Len(flat) = off[n]
  /\ \A i \in 1..n : \A k \in 1..Len(ss[i]) : flat[off[i - 1] + k] = ss[i][k]
  /\ \A m \in 1..off[n] : \E i \in 1..n : \E k \in 1..Len(ss[i]) : m = off[i - 1] + k

\* One more sequence is put at the end.
LEMMA FlattensNext ==
  ASSUME NEW S, NEW ss \in Seq(Seq(S)), NEW i \in 0..Len(ss), i # Len(ss),
         NEW off, NEW flat, Flattens(ss, i, off, flat, S)
  PROVE  \E next : Flattens(ss, i + 1, next, flat \o ss[i + 1], S)
<1> DEFINE n == i + 1
           new == ss[n]
           next == [j \in 0..n |-> IF j = n THEN off[i] + Len(new) ELSE off[j]]
           longer == flat \o new
<1>1. n \in 1..Len(ss) /\ n - 1 = i /\ i \in Nat
  OBVIOUS
<1>2. new \in Seq(S) /\ Len(new) \in Nat
  BY <1>1
<1>3. /\ off \in [0..i -> Nat] /\ off[0] = 0 /\ off[i] \in Nat
      /\ \A j \in 1..i : off[j] = off[j - 1] + Len(ss[j]) /\ off[j] <= off[i]
      /\ flat \in Seq(S) /\ Len(flat) = off[i]
  BY <1>1 DEF Flattens
<1>4. \A j \in 1..i : \A k \in 1..Len(ss[j]) : flat[off[j - 1] + k] = ss[j][k]
  BY DEF Flattens
<1>5. \A m \in 1..off[i] : \E j \in 1..i : \E k \in 1..Len(ss[j]) : m = off[j - 1] + k
  BY DEF Flattens
<1> HIDE DEF new
<1>6. next \in [0..n -> Nat] /\ next[0] = 0 /\ next[n] = off[i] + Len(new) /\ next[i] = off[i]
  BY <1>1, <1>2, <1>3
<1>7. \A j \in 1..i : next[j] = off[j] /\ next[j - 1] = off[j - 1]
  BY <1>1
<1> HIDE DEF next
<1>8. \A j \in 1..n : next[j] = next[j - 1] + Len(ss[j]) /\ next[j] <= next[n]
  <2> TAKE j \in 1..n
  <2>1. CASE j = n BY <2>1, <1>1, <1>2, <1>3, <1>6 DEF new
  <2>2. CASE j # n
    <3>1. j \in 1..i
      BY <2>2, <1>1
    <3>2. off[j] \in Nat /\ off[j] <= off[i] /\ off[j] = off[j - 1] + Len(ss[j])
      BY <3>1, <1>3
    <3>3. next[j] = off[j] /\ next[j - 1] = off[j - 1]
      BY <3>1, <1>7
    <3>4. off[i] <= next[n]
      BY <1>2, <1>3, <1>6
    <3>5. off[i] \in Nat /\ next[n] \in Nat
      BY <1>2, <1>3, <1>6
    <3> QED
      BY <3>2, <3>3, <3>4, <3>5
  <2> QED BY <2>1, <2>2
<1>9. longer \in Seq(S) /\ Len(longer) = next[n]
  <2>1. flat \o new \in Seq(S) /\ Len(flat \o new) = Len(flat) + Len(new)
    BY <1>2, <1>3, ConcatProperties
  <2> QED
    BY <2>1, <1>3, <1>6
<1>10. /\ \A k \in 1..off[i] : longer[k] = flat[k]
       /\ \A k \in 1..Len(new) : longer[off[i] + k] = new[k]
  <2>0. flat \in Seq(S) /\ new \in Seq(S)
    BY <1>2, <1>3
  <2>1. \A k \in 1..Len(flat) + Len(new) :
          longer[k] = IF k <= Len(flat) THEN flat[k] ELSE new[k - Len(flat)]
    BY <2>0, ConcatProperties
  <2> HIDE DEF longer
  <2>2. ASSUME NEW k \in 1..Len(new) PROVE longer[off[i] + k] = new[k]
    <3>1. off[i] + k \in 1..Len(flat) + Len(new) /\ ~(off[i] + k <= Len(flat))
          /\ (off[i] + k) - Len(flat) = k
      BY <1>2, <1>3
    <3> QED
      BY <3>1, <2>1
  <2>3. ASSUME NEW k \in 1..off[i] PROVE longer[k] = flat[k]
    <3>1. k \in 1..Len(flat) + Len(new) /\ k <= Len(flat)
      BY <1>2, <1>3
    <3> QED
      BY <3>1, <2>1
  <2> QED
    BY <2>2, <2>3
<1> HIDE DEF longer
<1>11. ASSUME NEW j \in 1..n, NEW k \in 1..Len(ss[j])
       PROVE  longer[next[j - 1] + k] = ss[j][k]
  <2>1. CASE j = n BY <2>1, <1>1, <1>6, <1>10 DEF new
  <2>2. CASE j # n
    <3>1. j \in 1..i
      BY <2>2, <1>1
    <3>2. ss[j] \in Seq(S) /\ Len(ss[j]) \in Nat
      OBVIOUS
    <3>3. off[j - 1] \in Nat /\ off[j] = off[j - 1] + Len(ss[j]) /\ off[j] <= off[i]
      BY <3>1, <1>3
    <3>6. PICK o \in Nat : o = off[j - 1]
      BY <3>3
    <3>7. PICK l \in Nat : l = Len(ss[j]) /\ k \in 1..l
      BY <3>2
    <3>8. PICK z \in Nat : z = off[i]
      BY <1>3
    <3>9. o + l <= z
      BY <3>3, <3>6, <3>7, <3>8
    <3>10. o + k \in 1..z
      BY <3>7, <3>9
    <3>4. off[j - 1] + k \in 1..off[i]
      BY <3>6, <3>8, <3>10
    <3>5. longer[off[j - 1] + k] = flat[off[j - 1] + k]
      BY <3>4, <1>10
    <3> QED
      BY <3>1, <3>5, <1>4, <1>7
  <2> QED BY <2>1, <2>2
<1>12. ASSUME NEW m \in 1..next[n]
       PROVE  \E j \in 1..n : \E k \in 1..Len(ss[j]) : m = next[j - 1] + k
  <2>1. CASE m \in 1..off[i]
    <3>1. PICK j \in 1..i : \E k \in 1..Len(ss[j]) : m = off[j - 1] + k
      BY <2>1, <1>5
    <3>2. j \in 1..n /\ next[j - 1] = off[j - 1]
      BY <3>1, <1>1, <1>7
    <3> QED
      BY <3>1, <3>2
  <2>2. CASE m \notin 1..off[i]
    <3>1. m - off[i] \in 1..Len(new) /\ m = off[i] + (m - off[i])
      BY <2>2, <1>2, <1>3, <1>6
    <3>2. n \in 1..n /\ next[n - 1] = off[i] /\ Len(ss[n]) = Len(new)
      BY <1>1, <1>6 DEF new
    <3> QED
      BY <3>1, <3>2
  <2> QED BY <2>1, <2>2
<1>13. Flattens(ss, n, next, longer, S)
  BY <1>6, <1>8, <1>9, <1>11, <1>12 DEF Flattens
<1> QED
  BY <1>13 DEF longer, new

\* FlattenSeq puts the sequences one after the other.
LEMMA Flat ==
  ASSUME NEW S, NEW ss \in Seq(Seq(S))
  PROVE  \E off : Flattens(ss, Len(ss), off, FlattenSeq(ss), S)
<1>1. Flattens(ss, 0, [i \in 0..0 |-> 0], <<>>, S)
  BY DEF Flattens
<1>2. CASE Len(ss) = 0
  <2>1. FlattenSeq(ss) = <<>>
    BY <1>2 DEF FlattenSeq
  <2> QED
    BY <1>1, <1>2, <2>1
<1>3. CASE Len(ss) # 0
  <2>1. PICK e : FlattenSeq(ss) = e[Len(ss)] /\ e = CHOOSE f : f = FlattenFrom(ss, f)
    BY <1>3, FlattenChosen
  <2>2. e = FlattenFrom(ss, e)
    BY <2>1, FlatExists
  <2>3. \A i \in 1..Len(ss) : e[i] = IF i = 1 THEN ss[i] ELSE e[i - 1] \o ss[i]
    BY <2>2 DEF FlattenFrom
  <2> DEFINE T == {i \in 0..Len(ss) : i # 0 => \E off : Flattens(ss, i, off, e[i], S)}
  <2>4. 0 \in T
    OBVIOUS
  <2>5. ASSUME NEW i \in 0..Len(ss), i # Len(ss), i \in T
        PROVE  i + 1 \in T
    <3>1. i + 1 \in 1..Len(ss) /\ i + 1 # 0
      BY <2>5
    <3>2. CASE i = 0
      <4>1. \E off : Flattens(ss, 0 + 1, off, <<>> \o ss[0 + 1], S)
        BY <1>1, <2>5, <3>2, FlattensNext
      <4>2. e[1] = ss[1] /\ ss[1] \in Seq(S) /\ <<>> \o ss[1] = ss[1]
        BY <2>3, <3>1, <3>2
      <4>3. \E off : Flattens(ss, i + 1, off, e[i + 1], S)
        BY <4>1, <4>2, <3>2
      <4> QED
        BY <3>1, <4>3
    <3>3. CASE i # 0
      <4>1. PICK off : Flattens(ss, i, off, e[i], S)
        BY <2>5, <3>3
      <4>2. \E next : Flattens(ss, i + 1, next, e[i] \o ss[i + 1], S)
        BY <4>1, <2>5, FlattensNext
      <4>3. e[i + 1] = e[i] \o ss[i + 1]
        <5>1. (i + 1) - 1 = i /\ i + 1 # 1
          BY <3>3
        <5> QED
          BY <5>1, <3>1, <2>3
      <4>4. \E next : Flattens(ss, i + 1, next, e[i + 1], S)
        BY <4>2, <4>3
      <4> QED
        BY <3>1, <4>4
    <3> QED
      BY <3>2, <3>3
  <2> HIDE DEF T
  <2>6. \A i \in 0..Len(ss) : i # Len(ss) /\ i \in T => i + 1 \in T
    BY <2>5
  <2>7. Len(ss) \in T
    <3>1. Len(ss) \in Nat
      OBVIOUS
    <3>2. \A i \in 0..Len(ss) : i \in T
      BY <3>1, <2>4, <2>6, Induction
    <3> QED
      BY <3>1, <3>2
  <2> QED
    BY <1>3, <2>1, <2>7 DEF T
<1> QED
  BY <1>2, <1>3

-----------------------------------------------------------------------------
(* Memory.                                                                 *)

Addresses == {4 * n : n \in 0..(StackTop \div 4 - 1)}

\* The addresses are the multiples of four below the top of the stack.
LEMMA AddressOK == \A a : a \in Addresses <=> a \in Fours /\ a < StackTop
<1> TAKE a
<1>1. StackTop \in Nat /\ StackTop % 4 = 0
  BY BoundsAssumption
<1>2. ASSUME a \in Addresses PROVE a \in Fours /\ a < StackTop
  BY <1>1, <1>2 DEF Addresses, Fours
<1>3. ASSUME a \in Fours, a < StackTop PROVE a \in Addresses
  <2>1. a = 4 * (a \div 4) /\ a \div 4 \in 0..(StackTop \div 4 - 1)
    BY <1>1, <1>3 DEF Fours
  <2> QED
    BY <2>1 DEF Addresses
<1> QED
  BY <1>2, <1>3

\* The words of a value are at addresses that end with it.
LEMMA WordAddress ==
  ASSUME NEW at \in Fours, NEW n \in Nat, NEW k \in 1..n
  PROVE  /\ at + 4 * (k - 1) \in Fours
         /\ at + 4 * (k - 1) \in at..(at + 4 * n - 1)
         /\ ((at + 4 * (k - 1) - at) \div 4) + 1 = k
BY DEF Fours

Covers(s, a) == a \in s.at..(s.at + 4 * Len(s.words) - 1)

\* A word no store covers is kept.
LEMMA StoredOut ==
  ASSUME NEW m, NEW stores, NEW a \in DOMAIN m, \A i \in DOMAIN stores : ~Covers(stores[i], a)
  PROVE  StoreAll(m, stores)[a] = m[a]
BY DEF StoreAll, Covers

\* A word is what the last store that covers it puts there.
LEMMA StoredIn ==
  ASSUME NEW m, NEW stores, NEW a \in DOMAIN m, NEW i \in DOMAIN stores, i \in Int,
         Covers(stores[i], a), \A j \in DOMAIN stores : j # i => ~Covers(stores[j], a)
  PROVE  StoreAll(m, stores)[a] = stores[i].words[((a - stores[i].at) \div 4) + 1]
<1> DEFINE here == {j \in DOMAIN stores : a \in stores[j].at..(stores[j].at + 4 * Len(stores[j].words) - 1)}
<1>1. here = {i}
  BY DEF Covers
<1>2. Max(here) = i
  <2> HIDE DEF here
  <2>1. i >= i
    OBVIOUS
  <2> QED
    BY <1>1, <2>1 DEF Max
<1>3. StoreAll(m, stores)[a]
        = IF here = {} THEN m[a] ELSE stores[Max(here)].words[((a - stores[Max(here)].at) \div 4) + 1]
  BY DEF StoreAll
<1> HIDE DEF here
<1> QED
  BY <1>1, <1>2, <1>3

\* Stores do not change which addresses there are.
LEMMA SameDomain ==
  ASSUME NEW m, DOMAIN m = Addresses
  PROVE  /\ \A stores : DOMAIN StoreAll(m, stores) = Addresses
         /\ \A at, words : DOMAIN Store(m, at, words) = Addresses
         /\ \A bound : DOMAIN Below(m, bound) = Addresses
BY DEF StoreAll, Store, Below

\* What a store puts in memory is loaded from there, if no other store overlaps it.
LEMMA LoadStored ==
  ASSUME NEW m, DOMAIN m = Addresses, NEW stores, NEW i \in DOMAIN stores, i \in Int,
         NEW W, stores[i].words \in Seq(W), stores[i].at \in Fours,
         stores[i].at + 4 * Len(stores[i].words) <= StackTop,
         \A j \in DOMAIN stores : j # i =>
            \A a \in stores[i].at..(stores[i].at + 4 * Len(stores[i].words) - 1) : ~Covers(stores[j], a)
  PROVE  Load(StoreAll(m, stores), stores[i].at, 4 * Len(stores[i].words)) = stores[i].words
<1> DEFINE at == stores[i].at
           words == stores[i].words
           len == Len(words)
           after == StoreAll(m, stores)
<1>1. len \in Nat /\ at \in Fours /\ words = [k \in 1..len |-> words[k]]
  OBVIOUS
<1>0. /\ (4 * len) \div 4 = len /\ at + 4 * len <= StackTop
      /\ stores[i].at = at /\ stores[i].words = words /\ Len(stores[i].words) = len
      /\ \A j \in DOMAIN stores : j # i => \A a \in at..(at + 4 * len - 1) : ~Covers(stores[j], a)
  <2>1. \A x \in Nat : (4 * x) \div 4 = x
    OBVIOUS
  <2> QED
    BY <1>1, <2>1
<1> HIDE DEF at, words, len
<1>2. ASSUME NEW k \in 1..len
      PROVE  after[at + 4 * (k - 1)] = words[k]
  <2> DEFINE a == at + 4 * (k - 1)
  <2>1. a \in Fours /\ a \in at..(at + 4 * len - 1) /\ ((a - at) \div 4) + 1 = k
    <3>1. at \in Fours /\ len \in Nat /\ k \in 1..len
      BY <1>1
    <3>2. /\ at + 4 * (k - 1) \in Fours
          /\ at + 4 * (k - 1) \in at..(at + 4 * len - 1)
          /\ ((at + 4 * (k - 1) - at) \div 4) + 1 = k
      BY <3>1, WordAddress
    <3>3. a = at + 4 * (k - 1)
      OBVIOUS
    <3> HIDE DEF a
    <3>4. a \in Fours
      BY <3>2, <3>3
    <3>5. a \in at..(at + 4 * len - 1)
      BY <3>2, <3>3
    <3>6. ((a - at) \div 4) + 1 = k
      <4>1. at \in Int /\ k \in Int
        BY <3>1 DEF Fours
      <4> QED
        BY <3>3, <4>1
    <3> QED
      BY <3>4, <3>5, <3>6
  <2> HIDE DEF a
  <2>2. a \in DOMAIN m
    <3>0. at \in Nat /\ a \in Nat /\ a <= at + 4 * len - 1 /\ StackTop \in Nat
      BY <1>1, <2>1, BoundsAssumption DEF Fours
    <3>1. at \in Nat /\ a \in Nat /\ a < StackTop
      BY <1>0, <1>1, <3>0
    <3> QED
      BY <2>1, <3>1, AddressOK
  <2>3. Covers(stores[i], a)
    BY <1>0, <2>1 DEF Covers
  <2>4. \A j \in DOMAIN stores : j # i => ~Covers(stores[j], a)
    BY <1>0, <2>1
  <2>5. StoreAll(m, stores)[a] = stores[i].words[((a - stores[i].at) \div 4) + 1]
    BY <2>2, <2>3, <2>4, StoredIn
  <2> QED
    BY <1>0, <2>1, <2>5 DEF a
<1>3. Load(after, at, 4 * len) = [k \in 1..len |-> after[at + 4 * (k - 1)]]
  BY <1>0 DEF Load
<1> HIDE DEF after
<1>4. Load(after, at, 4 * len) = words
  BY <1>1, <1>2, <1>3
<1> QED
  BY <1>4 DEF after, at, words, len

\* The same for one store.
LEMMA LoadStore ==
  ASSUME NEW m, DOMAIN m = Addresses, NEW at \in Fours, NEW W, NEW words \in Seq(W),
         at + 4 * Len(words) <= StackTop
  PROVE  Load(Store(m, at, words), at, 4 * Len(words)) = words
<1> DEFINE len == Len(words)
           after == Store(m, at, words)
<1>1. len \in Nat /\ words = [k \in 1..len |-> words[k]]
  OBVIOUS
<1>0. (4 * len) \div 4 = len /\ at + 4 * len <= StackTop
  <2>1. \A x \in Nat : (4 * x) \div 4 = x
    OBVIOUS
  <2> QED
    BY <1>1, <2>1
<1> HIDE DEF len
<1>2. ASSUME NEW k \in 1..len
      PROVE  after[at + 4 * (k - 1)] = words[k]
  <2> DEFINE a == at + 4 * (k - 1)
  <2>1. a \in Fours /\ a \in at..(at + 4 * len - 1) /\ ((a - at) \div 4) + 1 = k
    <3>1. at \in Fours /\ len \in Nat /\ k \in 1..len
      BY <1>1
    <3>2. /\ at + 4 * (k - 1) \in Fours
          /\ at + 4 * (k - 1) \in at..(at + 4 * len - 1)
          /\ ((at + 4 * (k - 1) - at) \div 4) + 1 = k
      BY <3>1, WordAddress
    <3>3. a = at + 4 * (k - 1)
      OBVIOUS
    <3> HIDE DEF a
    <3>4. a \in Fours
      BY <3>2, <3>3
    <3>5. a \in at..(at + 4 * len - 1)
      BY <3>2, <3>3
    <3>6. ((a - at) \div 4) + 1 = k
      <4>1. at \in Int /\ k \in Int
        BY <3>1 DEF Fours
      <4> QED
        BY <3>3, <4>1
    <3> QED
      BY <3>4, <3>5, <3>6
  <2>2. a \in DOMAIN m
    <3>0. at \in Nat /\ a \in Nat /\ a <= at + 4 * len - 1 /\ StackTop \in Nat
      BY <1>1, <2>1, BoundsAssumption DEF Fours
    <3>1. at \in Nat /\ a \in Nat /\ a < StackTop
      BY <1>0, <1>1, <3>0
    <3> QED
      BY <2>1, <3>1, AddressOK
  <2> HIDE DEF a
  <2>3. after[a] = words[((a - at) \div 4) + 1]
    BY <2>1, <2>2 DEF Store, len
  <2> QED
    BY <2>1, <2>3 DEF a
<1>3. Load(after, at, 4 * len) = [k \in 1..len |-> after[at + 4 * (k - 1)]]
  BY <1>1 DEF Load
<1> HIDE DEF after, len
<1>4. Load(after, at, 4 * len) = words
  BY <1>1, <1>2, <1>3
<1> QED
  BY <1>4 DEF after, len

\* What lies above the stack pointer survives it.
LEMMA LoadAbove ==
  ASSUME NEW m, DOMAIN m = Addresses, NEW bound \in Nat, NEW at \in Fours, NEW n \in Nat,
         bound <= at, at + 4 * n <= StackTop
  PROVE  Load(Below(m, bound), at, 4 * n) = Load(m, at, 4 * n)
<1> DEFINE after == Below(m, bound)
<1>1. ASSUME NEW k \in 1..n
      PROVE  after[at + 4 * (k - 1)] = m[at + 4 * (k - 1)]
  <2> DEFINE a == at + 4 * (k - 1)
  <2>1. a \in Fours /\ a \in at..(at + 4 * n - 1)
    BY WordAddress
  <2>2. a \in DOMAIN m /\ ~(a < bound)
    <3>1. at \in Nat /\ a \in Nat /\ a < StackTop /\ ~(a < bound)
      BY <2>1, BoundsAssumption DEF Fours
    <3> QED
      BY <2>1, <3>1, AddressOK
  <2> HIDE DEF a
  <2>3. after[a] = m[a]
    BY <2>2 DEF Below
  <2> QED
    BY <2>3 DEF a
<1> HIDE DEF after
<1>2. (4 * n) \div 4 = n
  OBVIOUS
<1>3. Load(after, at, 4 * n) = Load(m, at, 4 * n)
  BY <1>1, <1>2 DEF Load
<1> QED
  BY <1>3 DEF after

-----------------------------------------------------------------------------
(* The shadow stack.                                                       *)

Sixteens == {n \in Nat : n % 16 = 0}

\* The stack pointer before its caller made room for a call.
Before(call) == call.base + CallerFrame(call.cif).size

\* The stack pointer a call's target starts with.
Entered(call) ==
  IF call.target = "c" THEN call.saved ELSE call.saved - ClosureFrame(build_sig(call.cif)).size

\* What a call's record says of the stack, and where the target puts the result.
CallOK(call) ==
  /\ call = [cif |-> call.cif, target |-> call.target, base |-> call.base,
             operands |-> call.operands, saved |-> call.saved, avalue |-> call.avalue,
             rvalue |-> call.rvalue, funAvalue |-> call.funAvalue,
             funRvalue |-> call.funRvalue, state |-> call.state]
  /\ call.cif \in Cifs /\ call.base \in Sixteens /\ call.saved \in Sixteens
  /\ Before(call) \in Sixteens /\ Before(call) <= StackTop /\ Entered(call) \in Sixteens
  /\ call.saved <= call.base /\ (~call.cif.varargs => call.saved = call.base)
  /\ call.target # "c" => ~call.cif.varargs
  /\ call.rvalue = call.base + CallerFrame(call.cif).rvalue
  /\ IsAggregate(build_sig(call.cif).Return) =>
       IF call.target = "c" THEN call.operands[1][1] = call.rvalue ELSE call.funRvalue = call.rvalue
  /\ call.target # "c" /\ HasResult(build_sig(call.cif).Return) =>
       /\ call.funRvalue \in Fours
       /\ call.funRvalue + ByteSize(build_sig(call.cif).Return) <= call.saved

\* Each call starts where the one it is made from has the stack pointer, and only the
\* innermost can have come back.
CallsNest ==
  /\ \E S : calls \in Seq(S)
  /\ \A d \in 1..Len(calls) : CallOK(calls[d])
  /\ \A d \in 1..Len(calls) :
       Before(calls[d]) = IF d = 1 THEN StackTop ELSE Entered(calls[d - 1])
  /\ \A d \in 1..Len(calls) :
       calls[d].state = "running" \/ (d = Len(calls) /\ calls[d].state = "back")

\* The stack pointer is where the innermost call entered its target or, once it is
\* back, where its caller called; with no call in progress it is at the top.
StackIsBalanced ==
  sp = IF calls = <<>> THEN StackTop
       ELSE IF Top.state = "running" THEN Entered(Top) ELSE Top.base

MemOK == DOMAIN mem = Addresses

StackInv == CallsNest /\ StackIsBalanced /\ MemOK /\ CallsComeBack

\* The variables this invariant reads.
stackVars == <<mem, sp, calls>>

\* The invariant reads only the shadow stack.
LEMMA StackStutter == StackInv /\ UNCHANGED stackVars => StackInv'
BY DEF StackInv, CallsNest, StackIsBalanced, MemOK, CallsComeBack, Top, stackVars

\* Multiples of sixteen, which the stack pointer stays at.
LEMMA SixteensAreFours == \A n \in Sixteens : n \in Fours
BY DEF Sixteens, Fours

\* The difference of two multiples of sixteen is one.
LEMMA Differences ==
  ASSUME NEW a \in Sixteens, NEW b \in Sixteens, a - b >= 0
  PROVE  a - b \in Sixteens /\ a - b <= a
BY DEF Sixteens

\* The stack starts at one.
LEMMA TopOfStack == StackTop \in Sixteens
BY BoundsAssumption DEF Sixteens

\* An instance starts with an empty stack.
LEMMA StackStart ==
  calls = <<>> /\ mem = NoStack /\ sp = StackTop => StackInv
<1> SUFFICES ASSUME calls = <<>>, mem = NoStack, sp = StackTop PROVE StackInv
  OBVIOUS
<1>1. calls \in Seq({}) /\ Len(calls) = 0
  OBVIOUS
<1>2. CallsNest
  <2>1. \E S : calls \in Seq(S)
    BY <1>1
  <2> QED
    BY <1>1, <2>1 DEF CallsNest
<1>3. MemOK
  BY DEF MemOK, NoStack, Addresses
<1> QED
  BY <1>2, <1>3 DEF StackInv, StackIsBalanced, CallsComeBack

\* The caller pops its frame and the call before it goes on.
LEMMA StackPops == StackInv /\ CallerGoesOn => StackInv'
<1> SUFFICES ASSUME StackInv, CallerGoesOn PROVE StackInv'
  OBVIOUS
<1> USE DEF StackInv
<1> DEFINE n == Len(calls)
<1>1. PICK S : calls \in Seq(S)
  BY DEF CallsNest
<1>2. n \in Nat /\ n # 0 /\ Top = calls[n] /\ n \in 1..n
  BY <1>1 DEF CallerGoesOn, Top
<1>0. n \in Nat /\ n # 0
  BY <1>2
<1>3. /\ calls' = SubSeq(calls, 1, n - 1) /\ sp' = Before(Top)
      /\ mem' = Below(mem, Before(Top))
  BY DEF CallerGoesOn, Before
<1>4. /\ calls' \in Seq(S) /\ Len(calls') = n - 1
      /\ \A d \in 1..(n - 1) : calls'[d] = calls[d]
  <2>1. /\ n - 1 \in Nat /\ n - 1 \in Int /\ 1 \in Int
        /\ \A d \in 1..(n - 1) : d \in 1..n /\ 1 + d - 1 = d
        /\ (n - 1) - 1 + 1 = n - 1 /\ (~(1 <= n - 1) => n - 1 = 0)
    <3> HIDE DEF n
    <3> QED
      BY <1>0
  <2>2. \A d \in 1..(n - 1) : calls[d] \in S
    BY <1>1, <2>1
  <2>3. /\ SubSeq(calls, 1, n - 1) \in Seq(S)
        /\ Len(SubSeq(calls, 1, n - 1)) = IF 1 <= n - 1 THEN (n - 1) - 1 + 1 ELSE 0
        /\ \A d \in 1..(n - 1) - 1 + 1 : SubSeq(calls, 1, n - 1)[d] = calls[1 + d - 1]
    BY <2>1, <2>2, SubSeqProperties
  <2> HIDE DEF n
  <2> QED
    BY <1>3, <2>1, <2>3
<1>5. CallsNest'
  <2>1. \E T : calls' \in Seq(T)
    BY <1>4
  <2>2. \A d \in 1..(n - 1) : CallOK(calls[d]) /\ calls[d].state = "running"
    BY <1>2 DEF CallsNest
  <2>3. \A d \in 1..(n - 1) :
          Before(calls'[d]) = IF d = 1 THEN StackTop ELSE Entered(calls'[d - 1])
    <3> TAKE d \in 1..(n - 1)
    <3>1. d \in 1..n /\ calls'[d] = calls[d] /\ (d # 1 => calls'[d - 1] = calls[d - 1])
      BY <1>2, <1>4
    <3> QED
      BY <3>1 DEF CallsNest
  <2> QED
    BY <1>4, <2>1, <2>2, <2>3 DEF CallsNest
<1>6. StackIsBalanced'
  <2>1. Before(Top) = IF n = 1 THEN StackTop ELSE Entered(calls[n - 1])
    BY <1>2 DEF CallsNest
  <2>2. CASE n = 1
    <3>1. calls' = <<>>
      BY <1>4, <2>2
    <3> QED
      BY <1>3, <2>1, <2>2, <3>1 DEF StackIsBalanced
  <2>3. CASE n # 1
    <3>1. n - 1 \in 1..(n - 1) /\ n - 1 \in 1..n /\ n - 1 # n
      <4> HIDE DEF n
      <4> QED
        BY <1>0, <2>3
    <3>2. calls' # <<>> /\ Top' = calls[n - 1]
      BY <1>4, <3>1 DEF Top
    <3>3. calls[n - 1].state = "running"
      BY <3>1 DEF CallsNest
    <3> QED
      BY <1>3, <2>1, <2>3, <3>2, <3>3 DEF StackIsBalanced
  <2> QED
    BY <2>2, <2>3
<1>7. MemOK'
  BY <1>3, SameDomain DEF MemOK
<1>8. CallsComeBack'
  <2>1. calls' # <<>> => Top'.state = "running"
    <3>1. ASSUME calls' # <<>> PROVE Top'.state = "running"
      <4>1. n - 1 # 0
        BY <1>4, <3>1
      <4>2. n - 1 \in 1..(n - 1) /\ n - 1 \in 1..n /\ n - 1 # n
        <5> HIDE DEF n
        <5> QED
          BY <1>0, <4>1
      <4>3. Top' = calls[n - 1]
        BY <1>4, <4>2 DEF Top
      <4>4. calls[n - 1].state = "running"
        BY <4>2 DEF CallsNest
      <4> QED
        BY <4>3, <4>4
    <3> QED
      BY <3>1
  <2> QED
    BY <2>1 DEF CallsComeBack
<1> QED
  BY <1>5, <1>6, <1>7, <1>8

\* The pieces a trampoline moves.
LEMMA PPieces ==
  ASSUME NEW p \in PTypes
  PROVE  Pieces(p) \in Seq([at : Fours, size : Fours])
<1>1. CASE p \in [tag : ValTags \union {"void"}, fields : {<<>>}]
  <2>1. p.tag \in ValTags \union {"void"}
    BY <1>1
  <2>2. CASE p.tag = "void" BY <2>2 DEF Pieces
  <2>3. CASE p.tag = "longdouble" BY <2>3 DEF Pieces, Fours
  <2>4. CASE p.tag \notin {"void", "longdouble"}
    <3>1. Pieces(p) = <<[at |-> 0, size |-> ByteSize(p)]>>
      BY <2>1, <2>4 DEF Pieces, ValTags
    <3>2. ByteSize(p) \in Fours /\ 0 \in Fours
      BY PValue DEF Fours
    <3> QED
      BY <3>1, <3>2
  <2> QED
    BY <2>2, <2>3, <2>4
<1>2. CASE p \in [tag : {"struct"}, fields : Seq(ValTags)]
  <2> DEFINE fs == Fields(p)
             x == Extents(fs)
             n == Len(p.fields)
  <2>1. p.tag = "struct" /\ p.fields \in Seq(ValTags)
    BY <1>2
  <2>2. fs \in Seq(PTypes) /\ Len(fs) = n /\ \A i \in 1..n : fs[i] = Scalar(p.fields[i]) /\ fs[i] \in PTypes
    <3>1. \A i \in 1..n : Scalar(p.fields[i]) \in PTypes
      BY <2>1 DEF Scalar, PTypes
    <3>2. fs = [i \in 1..n |-> Scalar(p.fields[i])]
      BY <2>1 DEF Fields
    <3> HIDE DEF fs
    <3> QED
      BY <2>1, <3>1, <3>2
  <2> HIDE DEF fs
  <2>3. x \in Seq(Extent) /\ Len(x) = n
    BY <2>2, ParamExtents
  <2> HIDE DEF x
  <2>4. Place(x).at \in [1..n -> Fours]
    BY <2>3, Placed
  <2>5. Pieces(p) = [i \in 1..n |-> [at |-> Place(x).at[i], size |-> ByteSize(Scalar(p.fields[i]))]]
    BY <2>1 DEF Pieces, x, fs
  <2>6. \A i \in 1..n : [at |-> Place(x).at[i], size |-> ByteSize(Scalar(p.fields[i]))] \in [at : Fours, size : Fours]
    BY <2>2, <2>4, PValue
  <2> HIDE DEF Pieces
  <2> QED
    BY <2>1, <2>5, <2>6
<1> QED
  BY <1>1, <1>2 DEF PTypes

\* The fixed arguments of a call, as sequences of pieces.
LEMMA FixedLoads ==
  ASSUME NEW c \in Cifs, NEW m, NEW avalue
  PROVE  LET sig == build_sig(c)
             loads == [i \in DOMAIN FixedParams(sig) |-> LoadArg(m, avalue, i, sig.Params[i])]
         IN /\ DOMAIN FixedParams(sig) = 1..(IF c.varargs THEN c.nfixed ELSE Len(c.args))
            /\ \E S : loads \in Seq(Seq(S))
<1> DEFINE sig == build_sig(c)
           ps == FixedParams(sig)
           n == IF c.varargs THEN c.nfixed ELSE Len(c.args)
           Loaded(i) == LoadArg(m, avalue, i, sig.Params[i])
           S == {Loaded(i)[k] : i \in 1..n, k \in Nat}
<1>1. /\ sig.Params \in Seq(PTypes) /\ Len(sig.Params) = Len(c.args)
      /\ c.nfixed \in Nat /\ c.nfixed <= Len(c.args) /\ Len(c.args) \in Nat
      /\ sig.Varargs = c.varargs /\ sig.NFixedArgs = c.nfixed /\ c.varargs \in BOOLEAN
  BY SigOK, CifOK
<1>2. n \in Nat /\ n <= Len(c.args)
  BY <1>1
<1>3. DOMAIN ps = 1..n
  <2> DEFINE q == sig.Params
  <2>1. q \in Seq(PTypes) /\ Len(q) = Len(c.args)
    BY <1>1
  <2>2. ps = IF c.varargs THEN SubSeq(q, 1, c.nfixed) ELSE q
    BY <1>1 DEF FixedParams
  <2> HIDE DEF q, ps, sig
  <2>3. CASE ~c.varargs BY <2>1, <2>2, <2>3
  <2>4. CASE c.varargs
    <3>1. \A i \in 1..c.nfixed : q[i] \in PTypes
      BY <1>1, <2>1
    <3>2. SubSeq(q, 1, c.nfixed) \in Seq(PTypes) /\ Len(SubSeq(q, 1, c.nfixed)) = c.nfixed
      BY <1>1, <3>1, SubSeqProperties
    <3> QED
      BY <2>2, <2>4, <3>2
  <2> QED BY <2>3, <2>4
<1>4. ASSUME NEW i \in 1..n
      PROVE  Loaded(i) \in Seq(S)
  <2>1. sig.Params[i] \in PTypes
    BY <1>1, <1>2
  <2>2. PICK r \in Nat : DOMAIN Pieces(sig.Params[i]) = 1..r
    BY <2>1, PPieces
  <2>3. DOMAIN Loaded(i) = 1..r /\ Loaded(i) = [k \in 1..r |-> Loaded(i)[k]]
    BY <2>2 DEF LoadArg, Read
  <2> HIDE DEF Loaded
  <2>4. \A k \in 1..r : Loaded(i)[k] \in S
    BY <2>3
  <2> HIDE DEF S
  <2> QED
    BY <2>3, <2>4
<1>5. [i \in DOMAIN ps |-> Loaded(i)] = [i \in 1..n |-> Loaded(i)]
  BY <1>3
<1>6. [i \in 1..n |-> Loaded(i)] \in Seq(Seq(S))
  <2> HIDE DEF S, Loaded
  <2> QED
    BY <1>2, <1>4
<1>7. [i \in DOMAIN ps |-> Loaded(i)] \in Seq(Seq(S))
  BY <1>5, <1>6
<1>8. \E U : [i \in DOMAIN ps |-> Loaded(i)] \in Seq(Seq(U))
  <2> HIDE DEF S, Loaded, ps
  <2> QED
    BY <1>7
<1> QED
  BY <1>3, <1>8, Zenon

\* A result by pointer has the pointer first.
LEMMA FirstOperand ==
  ASSUME NEW c \in Cifs, NEW m, NEW base, NEW avalue, NEW rvalue, IsAggregate(build_sig(c).Return)
  PROVE  CallTrampoline(build_sig(c), m, base, avalue, rvalue).operands[1][1] = rvalue
<1> DEFINE sig == build_sig(c)
           loads == [i \in DOMAIN FixedParams(sig) |-> LoadArg(m, avalue, i, sig.Params[i])]
           fixed == FlattenSeq(loads)
           buffer == <<base - VarargsLayout(sig).size>>
           last == IF sig.Varargs THEN <<buffer>> ELSE <<>>
           first == << <<rvalue>> >>
<1>1. PICK S : loads \in Seq(Seq(S))
  BY FixedLoads
<1>2. fixed \in Seq(S)
  <2> HIDE DEF loads
  <2> QED
    BY <1>1, Flat DEF Flattens
<1>3. CallTrampoline(sig, m, base, avalue, rvalue).operands = first \o fixed \o last
  BY DEF CallTrampoline
<1> DEFINE T == S \union {<<rvalue>>, buffer}
<1>4. first \in Seq(T) /\ Len(first) = 1 /\ first[1] = <<rvalue>> /\ last \in Seq(T)
  <2> HIDE DEF buffer
  <2>1. buffer \in T /\ <<rvalue>> \in T
    OBVIOUS
  <2> HIDE DEF T
  <2>2. <<buffer>> \in Seq(T) /\ <<>> \in Seq(T)
    BY <2>1
  <2>3. first \in Seq(T) /\ Len(first) = 1 /\ first[1] = <<rvalue>>
    BY <2>1
  <2> QED
    BY <2>2, <2>3
<1>5. fixed \in Seq(T)
  <2> HIDE DEF fixed
  <2> QED
    BY <1>2
<1> HIDE DEF fixed, last, first, T
<1>6. first \o fixed \in Seq(T) /\ Len(first \o fixed) = 1 + Len(fixed) /\ (first \o fixed)[1] = <<rvalue>>
  <2>1. Len(fixed) \in Nat
    BY <1>5
  <2>2. 1 \in 1..Len(first) + Len(fixed) /\ 1 <= Len(first)
    BY <1>4, <2>1
  <2>3. /\ first \o fixed \in Seq(T) /\ Len(first \o fixed) = Len(first) + Len(fixed)
        /\ \A i \in 1..Len(first) + Len(fixed) :
             (first \o fixed)[i] = IF i <= Len(first) THEN first[i] ELSE fixed[i - Len(first)]
    BY <1>4, <1>5, ConcatProperties
  <2> QED
    BY <1>4, <2>2, <2>3
<1>7. (first \o fixed \o last)[1] = <<rvalue>>
  <2>1. Len(fixed) \in Nat /\ Len(last) \in Nat
    BY <1>4, <1>5
  <2>2. 1 \in 1..Len(first \o fixed) + Len(last) /\ 1 <= Len(first \o fixed)
    BY <1>6, <2>1
  <2> QED
    BY <1>4, <1>6, <2>2, ConcatProperties
<1> QED
  BY <1>3, <1>7

\* A call makes its frames below the stack pointer.
LEMMA StackGrows ==
  ASSUME StackInv, NEW c \in Cifs, NEW k \in Closures \union {"c"}, Dispatch(c, k)
  PROVE  StackInv'
<1> USE DEF StackInv
<1> DEFINE sig    == build_sig(c)
           n      == Len(calls)
           depth  == n + 1
           base   == sp - CallerFrame(c).size
           avalue == base + CallerFrame(c).avalue
           rvalue == base + CallerFrame(c).rvalue
           m      == StoreAll(mem, CallerStores(c, base, depth))
           out    == CallTrampoline(sig, m, base, avalue, rvalue)
           frame  == out.sp - ClosureFrame(sig).size
           fun    == IF IsAggregate(sig.Return) THEN out.operands[1][1] ELSE frame + ClosureFrame(sig).ret
           call   == [cif |-> c, target |-> k, base |-> base, operands |-> out.operands,
                      saved |-> out.sp, avalue |-> avalue, rvalue |-> rvalue,
                      funAvalue |-> frame + ClosureFrame(sig).avalue,
                      funRvalue |-> fun, state |-> "running"]
<1>1. /\ GuestRuns /\ (IF k = "c" THEN out.sp ELSE frame) >= 0 /\ (k # "c" => ~c.varargs)
      /\ sp' = (IF k = "c" THEN out.sp ELSE frame)
      /\ mem' = IF k = "c" THEN out.mem ELSE StoreAll(out.mem, ClosureStores(sig, out.operands, frame))
      /\ calls' = Append(calls, call)
  BY Zenon DEF Dispatch
<1>2. out.sp = (IF c.varargs THEN base - VarargsLayout(sig).size ELSE base) /\ DOMAIN out.mem = Addresses
  <2>1. DOMAIN m = Addresses
    BY SameDomain DEF MemOK
  <2>2. sig.Varargs = c.varargs
    BY SigOK
  <2> HIDE DEF m
  <2> QED
    BY <2>1, <2>2, SameDomain DEF CallTrampoline
<1>3. /\ CallerFrame(c).size \in Sixteens /\ VarargsLayout(sig).size \in Sixteens
      /\ ClosureFrame(sig).size \in Sixteens /\ ClosureFrame(sig).ret \in Fours
      /\ HasResult(sig.Return) => ClosureFrame(sig).ret + ByteSize(sig.Return) <= ClosureFrame(sig).size
      /\ HasResult(sig.Return) => ByteSize(sig.Return) \in Fours
  <2>1. CallerFrame(c).size \in Fours /\ CallerFrame(c).size % 16 = 0
    BY CallerFrameOK
  <2>2. VarargsLayout(sig).size \in Fours /\ VarargsLayout(sig).size % 16 = 0
    BY VarargsOK
  <2>3. /\ ClosureFrame(sig).size \in Fours /\ ClosureFrame(sig).size % 16 = 0
        /\ ClosureFrame(sig).ret \in Fours
        /\ HasResult(sig.Return) => ClosureFrame(sig).ret + ByteSize(sig.Return) <= ClosureFrame(sig).size
    BY ClosureFrameOK
  <2>4. ByteSize(sig.Return) \in Fours
    BY SigOK, PValue
  <2> QED
    BY <2>1, <2>2, <2>3, <2>4 DEF Sixteens, Fours
<1>4. sp \in Sixteens /\ sp <= StackTop /\ n \in Nat
      /\ sp = IF n = 0 THEN StackTop ELSE Entered(calls[n])
  <2>1. PICK S : calls \in Seq(S)
    BY DEF CallsNest
  <2>2. n \in Nat
    BY <2>1
  <2>3. CASE n = 0
    <3>1. calls = <<>>
      BY <2>1, <2>3
    <3> QED
      BY <2>3, <3>1, TopOfStack, BoundsAssumption DEF StackIsBalanced
  <2>4. CASE n # 0
    <3>1. calls # <<>> /\ Top = calls[n] /\ n \in 1..n
      BY <2>1, <2>2, <2>4 DEF Top
    <3>2. sp = Entered(calls[n]) /\ CallOK(calls[n])
      BY <3>1, <1>1 DEF StackIsBalanced, GuestRuns, CallsNest
    <3>3. sp <= StackTop
      <4>1. /\ Entered(calls[n]) \in Sixteens /\ Before(calls[n]) <= StackTop
            /\ calls[n].cif \in Cifs /\ calls[n].base \in Sixteens /\ calls[n].saved \in Sixteens
            /\ Before(calls[n]) \in Sixteens
        BY <3>2 DEF CallOK
      <4>2. CallerFrame(calls[n].cif).size \in Nat /\ ClosureFrame(build_sig(calls[n].cif)).size \in Nat
        BY <4>1, CallerFrameOK, ClosureFrameOK DEF Fours
      <4>3. calls[n].saved <= calls[n].base
        BY <3>2 DEF CallOK
      <4> DEFINE b == calls[n].base
                 s == calls[n].saved
                 f == CallerFrame(calls[n].cif).size
                 g == ClosureFrame(build_sig(calls[n].cif)).size
      <4>4. (sp = s \/ sp = s - g) /\ b + f <= StackTop
        BY <3>2, <4>1 DEF Entered, Before
      <4>5. b \in Nat /\ s \in Nat /\ f \in Nat /\ g \in Nat /\ s <= b
        BY <4>1, <4>2, <4>3 DEF Sixteens
      <4> HIDE DEF b, s, f, g
      <4> QED
        BY <4>4, <4>5, BoundsAssumption
    <3> QED
      BY <2>2, <2>4, <3>2, <3>3 DEF CallOK
  <2> QED BY <2>2, <2>3, <2>4
<1>5. /\ base \in Sixteens /\ out.sp \in Sixteens /\ out.sp <= base
      /\ k # "c" => frame \in Sixteens
      /\ k # "c" => frame <= out.sp
      /\ base + CallerFrame(c).size = sp
  <2> DEFINE F == CallerFrame(c).size
             V == VarargsLayout(sig).size
             G == ClosureFrame(sig).size
             o == out.sp
  <2>1. /\ F \in Sixteens /\ V \in Sixteens /\ G \in Sixteens /\ base = sp - F /\ frame = o - G
        /\ o = (IF c.varargs THEN base - V ELSE base) /\ (IF k = "c" THEN o ELSE frame) >= 0
    BY <1>1, <1>2, <1>3
  <2> HIDE DEF F, V, G, o, base, frame
  <2>2. F \in Nat /\ V \in Nat /\ G \in Nat /\ sp \in Nat /\ base \in Int /\ o \in Int
    BY <2>1, <1>4 DEF Sixteens
  <2>3. o >= 0 /\ o <= base /\ base >= 0
    BY <2>1, <2>2
  <2>4. base \in Sixteens
    BY <1>4, <2>1, <2>3, Differences
  <2>5. o \in Sixteens
    BY <2>1, <2>3, <2>4, Differences
  <2>6. k # "c" => frame \in Sixteens /\ frame <= o
    BY <2>1, <2>5, Differences
  <2>7. base + F = sp
    BY <2>1, <2>2
  <2> QED
    BY <2>3, <2>4, <2>5, <2>6, <2>7 DEF F, o
<1>7. CallOK(call)
  <2> DEFINE ret == ClosureFrame(sig).ret
             size == ByteSize(sig.Return)
  <2>1. IsAggregate(sig.Return) => out.operands[1][1] = rvalue
    BY FirstOperand
  <2>2. Before(call) = sp /\ Entered(call) = (IF k = "c" THEN out.sp ELSE frame)
    BY <1>5 DEF Before, Entered
  <2>3. ~c.varargs => out.sp = base
    BY <1>2
  <2>4. k # "c" /\ HasResult(sig.Return) => fun \in Fours /\ fun + size <= out.sp
    <3> SUFFICES ASSUME k # "c", HasResult(sig.Return) PROVE fun \in Fours /\ fun + size <= out.sp
      OBVIOUS
    <3>1. fun = frame + ret
      BY DEF HasResult
    <3>2. /\ ret \in Fours /\ size \in Fours /\ ret + size <= ClosureFrame(sig).size
          /\ frame = out.sp - ClosureFrame(sig).size /\ ClosureFrame(sig).size \in Sixteens
      BY <1>3
    <3>3. frame \in Sixteens /\ out.sp \in Sixteens /\ base \in Sixteens /\ out.sp <= base /\ base + CallerFrame(c).size = sp
          /\ CallerFrame(c).size \in Sixteens /\ sp <= StackTop /\ sp \in Sixteens
      BY <1>3, <1>4, <1>5
    <3> DEFINE o == out.sp
               G == ClosureFrame(sig).size
               F == CallerFrame(c).size
    <3> HIDE DEF fun, frame, base, ret, size, o, G, F
    <3>7. /\ ret \in Fours /\ size \in Fours /\ ret + size <= G /\ frame = o - G /\ G \in Sixteens
          /\ frame \in Sixteens /\ o \in Sixteens /\ base \in Sixteens /\ o <= base /\ base + F = sp
          /\ F \in Sixteens /\ sp <= StackTop /\ sp \in Sixteens
      <4> HIDE DEF out, sig
      <4> QED
        BY <3>2, <3>3 DEF o, G, F
    <3>8. frame \in Nat /\ frame % 4 = 0
      BY <3>7 DEF Sixteens
    <3>9. ret \in Nat /\ ret % 4 = 0 /\ size \in Nat
      BY <3>7 DEF Fours
    <3>10. o \in Nat /\ G \in Nat /\ F \in Nat /\ base \in Nat /\ sp \in Nat
      BY <3>7 DEF Sixteens
    <3>4. /\ frame \in Nat /\ frame % 4 = 0 /\ ret \in Nat /\ ret % 4 = 0 /\ size \in Nat
          /\ o \in Nat /\ G \in Nat /\ F \in Nat /\ base \in Nat /\ sp \in Nat
          /\ ret + size <= G /\ frame = o - G /\ o <= base /\ base + F = sp /\ sp <= StackTop
      BY <3>7, <3>8, <3>9, <3>10
    <3>5. frame + ret \in Fours
      BY <3>4 DEF Fours
    <3>6. frame + ret + size <= o
      BY <3>4
    <3> QED
      BY <3>1, <3>5, <3>6 DEF o
  <2> HIDE DEF fun, frame, base, rvalue, avalue, out
  <2>5. /\ call.cif = c /\ call.target = k /\ call.base = base /\ call.operands = out.operands
        /\ call.saved = out.sp /\ call.rvalue = rvalue /\ call.funRvalue = fun
        /\ call = [cif |-> call.cif, target |-> call.target, base |-> call.base,
                   operands |-> call.operands, saved |-> call.saved, avalue |-> call.avalue,
                   rvalue |-> call.rvalue, funAvalue |-> call.funAvalue,
                   funRvalue |-> call.funRvalue, state |-> call.state]
    OBVIOUS
  <2> HIDE DEF call
  <2>6. IsAggregate(sig.Return) =>
          IF k = "c" THEN out.operands[1][1] = rvalue ELSE fun = rvalue
    BY <2>1 DEF fun
  <2>7. Before(call) \in Sixteens /\ Before(call) <= StackTop /\ Entered(call) \in Sixteens
    BY <1>4, <1>5, <2>2
  <2>8. rvalue = base + CallerFrame(c).rvalue
    BY DEF rvalue
  <2> QED
    BY <1>1, <1>5, <2>3, <2>4, <2>5, <2>6, <2>7, <2>8 DEF CallOK
<1>8. Before(call) = sp /\ Entered(call) = sp' /\ call.state = "running"
  BY <1>1, <1>5 DEF Before, Entered
<1> HIDE DEF call
<1>9. PICK S : calls \in Seq(S)
  BY DEF CallsNest
<1>10. /\ calls' \in Seq(S \union {call}) /\ Len(calls') = n + 1 /\ calls'[n + 1] = call
       /\ \A d \in 1..n : calls'[d] = calls[d]
  <2>1. calls \in Seq(S \union {call}) /\ call \in S \union {call}
    BY <1>9
  <2> DEFINE T == S \union {call}
  <2> HIDE DEF T
  <2>2. calls' = Append(calls, call)
    BY <1>1
  <2>3. calls \in Seq(T) /\ call \in T
    BY <2>1 DEF T
  <2>4. /\ calls' \in Seq(T) /\ Len(calls') = n + 1 /\ calls'[n + 1] = call
        /\ \A d \in 1..n : calls'[d] = calls[d]
    BY <2>2, <2>3
  <2> QED
    BY <2>4 DEF T
<1>11. CallsNest'
  <2>1. \E T : calls' \in Seq(T)
    BY <1>10
  <2>2. \A d \in 1..(n + 1) : CallOK(calls'[d])
    BY <1>4, <1>7, <1>10 DEF CallsNest
  <2>3. \A d \in 1..(n + 1) :
          Before(calls'[d]) = IF d = 1 THEN StackTop ELSE Entered(calls'[d - 1])
    <3> TAKE d \in 1..(n + 1)
    <3>1. CASE d = n + 1
      <4>1. d # 1 => d - 1 \in 1..n /\ n # 0 /\ d - 1 = n
        BY <1>4, <3>1
      <4>2. d = 1 => n = 0
        BY <1>4, <3>1
      <4> QED
        BY <1>4, <1>8, <1>10, <3>1, <4>1, <4>2
    <3>2. CASE d # n + 1
      <4>1. d \in 1..n /\ (d # 1 => d - 1 \in 1..n)
        BY <1>4, <3>2
      <4> QED
        BY <1>10, <4>1 DEF CallsNest
    <3> QED BY <3>1, <3>2
  <2>4. \A d \in 1..(n + 1) : calls'[d].state = "running"
    <3> TAKE d \in 1..(n + 1)
    <3>1. CASE d = n + 1 BY <1>8, <1>10, <3>1
    <3>2. CASE d # n + 1
      <4>1. d \in 1..n /\ n # 0
        BY <1>4, <3>2
      <4>2. d = n => calls[d].state = "running"
        BY <1>1, <1>9, <4>1 DEF GuestRuns, Top
      <4>3. d # n => calls[d].state = "running"
        BY <4>1 DEF CallsNest
      <4> QED
        BY <1>10, <4>1, <4>2, <4>3
    <3> QED BY <3>1, <3>2
  <2> QED
    BY <1>10, <2>1, <2>2, <2>3, <2>4 DEF CallsNest
<1>12. calls' # <<>> /\ Top' = call
  BY <1>4, <1>10 DEF Top
<1>13. StackIsBalanced'
  BY <1>8, <1>12 DEF StackIsBalanced
<1>14. MemOK'
  BY <1>1, <1>2, SameDomain DEF MemOK
<1>15. CallsComeBack'
  BY <1>8, <1>12 DEF CallsComeBack
<1> QED
  BY <1>11, <1>13, <1>14, <1>15

\* A piece has an offset and a size.
LEMMA PieceOK ==
  ASSUME NEW ps \in Seq([at : Fours, size : Fours]), NEW i \in 1..Len(ps)
  PROVE  ps[i].at \in Fours /\ ps[i].size \in Fours
<1> DEFINE S == [at : Fours, size : Fours]
<1>1. ps[i] \in S
  <2>1. ps \in Seq(S) /\ i \in 1..Len(ps)
    OBVIOUS
  <2> HIDE DEF S
  <2> QED
    BY <2>1
<1> QED
  BY <1>1

\* A result's words, piece by piece.
LEMMA ResultWords ==
  ASSUME NEW c \in Cifs, NEW depth \in Nat
  PROVE  /\ CPieces(c.rtype) \in Seq([at : Fours, size : Fours])
         /\ DOMAIN Result(c, depth) = 1..Len(CPieces(c.rtype))
         /\ Result(c, depth) = [i \in 1..Len(CPieces(c.rtype)) |-> Result(c, depth)[i]]
         /\ \A i \in 1..Len(CPieces(c.rtype)) :
              /\ Result(c, depth)[i] \in Seq(Int)
              /\ 4 * Len(Result(c, depth)[i]) = CPieces(c.rtype)[i].size
<1> DEFINE ps == CPieces(c.rtype)
<1>1. ps \in Seq([at : Fours, size : Fours])
  BY CifOK, CValue DEF GoodPieces
<1>2. Result(c, depth) = [i \in 1..Len(ps) |->
                            [k \in 1..(ps[i].size \div 4) |-> Word(depth, ResultIndex, 4 * i + k)]]
  BY <1>1 DEF Result
<1> HIDE DEF ps
<1>3. ASSUME NEW i \in 1..Len(ps)
      PROVE  Result(c, depth)[i] \in Seq(Int) /\ 4 * Len(Result(c, depth)[i]) = ps[i].size
  <2> DEFINE size == ps[i].size
  <2>1. size \in Fours
    BY <1>1, PieceOK
  <2>2. Result(c, depth)[i] = [k \in 1..(size \div 4) |-> Word(depth, ResultIndex, 4 * i + k)]
    BY <1>2
  <2> HIDE DEF size
  <2>3. size \div 4 \in Nat /\ 4 * (size \div 4) = size
    BY <2>1 DEF Fours
  <2>4. \A k \in 1..(size \div 4) : Word(depth, ResultIndex, 4 * i + k) \in Int
    BY <1>1, <2>3 DEF Word, ResultIndex
  <2>5. Result(c, depth)[i] \in Seq(Int) /\ Len(Result(c, depth)[i]) = size \div 4
    BY <2>2, <2>3, <2>4
  <2> QED
    BY <2>3, <2>5 DEF size
<1>4. DOMAIN Result(c, depth) = 1..Len(ps) /\ Result(c, depth) = [i \in 1..Len(ps) |-> Result(c, depth)[i]]
  BY <1>2
<1> QED
  BY <1>1, <1>3, <1>4 DEF ps

\* What a function returns is where it put it.
LEMMA ResultStored ==
  ASSUME NEW c \in Cifs, NEW depth \in Nat, NEW m, DOMAIN m = Addresses, NEW at \in Fours,
         \A i \in 1..Len(CPieces(c.rtype)) :
            at + CPieces(c.rtype)[i].at + CPieces(c.rtype)[i].size <= StackTop
  PROVE  Read(StoreAll(m, ResultStores(c, depth, at)), at, CPieces(c.rtype)) = Result(c, depth)
<1> DEFINE ps == CPieces(c.rtype)
           n == Len(ps)
           result == Result(c, depth)
           stores == ResultStores(c, depth, at)
           after == StoreAll(m, stores)
<1>1. /\ ps \in Seq([at : Fours, size : Fours])
      /\ result = [i \in 1..n |-> result[i]]
      /\ \A i \in 1..n : result[i] \in Seq(Int) /\ 4 * Len(result[i]) = ps[i].size
      /\ \A i, j \in 1..n : i < j => ps[i].at + ps[i].size <= ps[j].at
      /\ \A i \in 1..n : at + ps[i].at + ps[i].size <= StackTop
  BY ResultWords, CifOK, CValue DEF GoodPieces
<1>2. stores = [i \in 1..n |-> [at |-> at + ps[i].at, words |-> result[i]]]
  BY <1>1 DEF ResultStores
<1>3. Read(after, at, ps) = [i \in 1..n |-> Load(after, at + ps[i].at, ps[i].size)]
  BY <1>1 DEF Read
<1> HIDE DEF ps, result, stores
<1>4. n \in Nat /\ DOMAIN stores = 1..n
      /\ \A i \in 1..n : stores[i].at = at + ps[i].at /\ stores[i].words = result[i]
  BY <1>1, <1>2
<1>5. \A i \in 1..n : ps[i].at \in Fours /\ ps[i].size \in Fours
  BY <1>1, PieceOK
<1> HIDE DEF n
<1>6. ASSUME NEW i \in 1..n
      PROVE  Load(after, at + ps[i].at, ps[i].size) = result[i]
  <2>1. /\ stores[i].words \in Seq(Int) /\ stores[i].at = at + ps[i].at
        /\ 4 * Len(stores[i].words) = ps[i].size
    BY <1>1, <1>4
  <2>2. stores[i].at \in Fours
    <3>1. ps[i].at \in Fours
      BY <1>5
    <3>2. at + ps[i].at \in Fours
      BY <3>1, FoursAdd
    <3> QED
      BY <2>1, <3>2
  <2>3. stores[i].at + 4 * Len(stores[i].words) <= StackTop
    BY <1>1, <2>1
  <2>4. ASSUME NEW j \in 1..n, j # i,
               NEW a \in stores[i].at..(stores[i].at + 4 * Len(stores[i].words) - 1)
        PROVE  ~Covers(stores[j], a)
    <3> DEFINE p == ps[i].at
               s == ps[i].size
               q == ps[j].at
               r == ps[j].size
    <3>1. stores[j].at = at + q /\ 4 * Len(stores[j].words) = r
      BY <1>1, <1>4
    <3>2. p \in Nat /\ s \in Nat /\ q \in Nat /\ r \in Nat /\ at \in Nat
      BY <1>5 DEF Fours
    <3>3. p + s <= q \/ q + r <= p
      <4>1. i < j \/ j < i
        BY <1>4, <2>4
      <4> QED
        BY <1>1, <4>1
    <3>4. a \in (at + p)..(at + p + s - 1)
      BY <2>1
    <3>5. Covers(stores[j], a) <=> a \in (at + q)..(at + q + r - 1)
      BY <3>1 DEF Covers
    <3> HIDE DEF p, s, q, r
    <3> QED
      BY <3>2, <3>3, <3>4, <3>5
  <2>5. Load(after, stores[i].at, 4 * Len(stores[i].words)) = stores[i].words
    <3>1. i \in DOMAIN stores /\ i \in Int
      BY <1>4
    <3>2. \A j \in DOMAIN stores : j # i =>
            \A a \in stores[i].at..(stores[i].at + 4 * Len(stores[i].words) - 1) : ~Covers(stores[j], a)
      BY <1>4, <2>4
    <3> QED
      BY <2>1, <2>2, <2>3, <3>1, <3>2, LoadStored
  <2> HIDE DEF after
  <2> QED
    BY <1>4, <2>1, <2>5
<1>7. Read(after, at, ps) = result
  <2> HIDE DEF after
  <2> QED
    BY <1>1, <1>3, <1>6
<1> QED
  BY <1>7 DEF ps, result, after, stores

\* What lies above the stack pointer can be read when the rest is dead.
LEMMA ReadAbove ==
  ASSUME NEW m, DOMAIN m = Addresses, NEW bound \in Nat, NEW at \in Fours, bound <= at,
         NEW ps \in Seq([at : Fours, size : Fours]),
         \A i \in 1..Len(ps) : at + ps[i].at + ps[i].size <= StackTop
  PROVE  Read(Below(m, bound), at, ps) = Read(m, at, ps)
<1> DEFINE after == Below(m, bound)
<1>1. ASSUME NEW i \in 1..Len(ps)
      PROVE  Load(after, at + ps[i].at, ps[i].size) = Load(m, at + ps[i].at, ps[i].size)
  <2> DEFINE a == at + ps[i].at
             n == ps[i].size \div 4
  <2>1. ps[i].at \in Fours /\ ps[i].size \in Fours
    BY PieceOK
  <2> DEFINE p == ps[i].at
             s == ps[i].size
  <2>2. a \in Fours /\ n \in Nat /\ 4 * n = ps[i].size /\ bound <= a
    <3>1. p \in Fours /\ s \in Fours /\ a = at + p /\ n = s \div 4
      BY <2>1
    <3> HIDE DEF a, n, p, s
    <3>2. a \in Fours /\ bound <= a
      <4>1. a \in Fours
        BY <3>1, FoursAdd
      <4>2. at \in Nat /\ p \in Nat
        BY <3>1 DEF Fours
      <4> QED
        BY <3>1, <4>1, <4>2
    <3>3. n \in Nat /\ 4 * n = s
      BY <3>1 DEF Fours
    <3> QED
      BY <3>2, <3>3 DEF s
  <2>3. a + 4 * n <= StackTop
    BY <2>2
  <2> HIDE DEF a, n
  <2>4. Load(after, a, 4 * n) = Load(m, a, 4 * n)
    BY <2>2, <2>3, LoadAbove
  <2> QED
    BY <2>2, <2>4 DEF a
<1> HIDE DEF after
<1>2. Read(after, at, ps) = Read(m, at, ps)
  BY <1>1 DEF Read
<1> QED
  BY <1>2 DEF after

\* When a target returns its caller has the result, wherever the target had to put it,
\* and the stack pointer the caller left.
LEMMA StackReturns == StackInv /\ TargetReturns => StackInv'
<1> SUFFICES ASSUME StackInv, TargetReturns PROVE StackInv'
  OBVIOUS
<1> USE DEF StackInv
<1>1. PICK S : calls \in Seq(S)
  BY DEF CallsNest
<1>2. PICK n \in Nat : n = Len(calls) /\ n \in 1..n
  BY <1>1 DEF TargetReturns
<1>3. PICK top : top = calls[n]
  OBVIOUS
<1>4. Top = top /\ CallOK(top) /\ top.state = "running" /\ calls # <<>>
  BY <1>2, <1>3 DEF Top, CallsNest, TargetReturns
<1>5. PICK c : c = top.cif
  OBVIOUS
<1>6. c \in Cifs
  BY <1>4, <1>5 DEF CallOK
<1> DEFINE p      == build_sig(c).Return
           ps     == CPieces(c.rtype)
           base   == top.base
           rvalue == top.rvalue
           result == Result(c, n)
           to     == IF top.target # "c" THEN top.funRvalue
                     ELSE IF IsAggregate(p) THEN top.operands[1][1] ELSE rvalue
           m      == StoreAll(mem, ResultStores(c, n, to))
           back   == IF top.target # "c" /\ HasResult(p)
                       THEN Store(m, rvalue, Load(m, to, ByteSize(p))) ELSE m
<1>7. /\ sp' = Restored(top) /\ mem' = Below(back, Restored(top))
      /\ calls' = [calls EXCEPT ![n].state = "back"]
  BY <1>2, <1>4, <1>5 DEF TargetReturns
<1>8. Restored(top) = base /\ base \in Nat
  BY <1>4 DEF CallOK, Restored, Sixteens
<1>9. /\ ps \in Seq([at : Fours, size : Fours])
      /\ \A i \in 1..Len(ps) : ps[i].at \in Fours /\ ps[i].size \in Fours
      /\ \A i \in 1..Len(ps) : ps[i].at + ps[i].size <= 16
      /\ HasResult(p) => Len(ps) = 1 /\ ps[1] = [at |-> 0, size |-> ByteSize(p)] /\ ByteSize(p) \in {4, 8}
      /\ ~HasResult(p) /\ ~IsAggregate(p) => Len(ps) = 0
  <2>1. c.rtype \in CTypes /\ CSize(c.rtype) <= 16 /\ p = encode_type(c.rtype)
    BY <1>6, CifOK, SigOK, CifsAssumption
  <2>2. CSize(c.rtype) \in Fours /\ GoodPieces(ps, CSize(c.rtype))
    BY <2>1, CValue
  <2>3. /\ ps \in Seq([at : Fours, size : Fours])
        /\ \A i \in 1..Len(ps) : ps[i].at + ps[i].size <= CSize(c.rtype)
    BY <2>2 DEF GoodPieces
  <2>4. \A i \in 1..Len(ps) : ps[i].at \in Fours /\ ps[i].size \in Fours
    BY <2>3, PieceOK
  <2>5. \A i \in 1..Len(ps) : ps[i].at + ps[i].size <= 16
    <3> TAKE i \in 1..Len(ps)
    <3> DEFINE e == ps[i].at + ps[i].size
               s == CSize(c.rtype)
    <3>1. e <= s /\ s <= 16
      BY <2>1, <2>3
    <3>2. e \in Nat /\ s \in Nat
      BY <2>2, <2>4 DEF Fours
    <3> HIDE DEF e, s
    <3>3. e <= 16
      BY <3>1, <3>2
    <3> QED
      BY <3>3 DEF e
  <2>6. HasResult(p) => Len(ps) = 1 /\ ps[1] = [at |-> 0, size |-> ByteSize(p)] /\ ByteSize(p) \in {4, 8}
    BY <2>1, Returned
  <2>7. ~HasResult(p) /\ ~IsAggregate(p) => Len(ps) = 0
    BY <2>1, Returned
  <2> QED
    BY <2>3, <2>4, <2>5, <2>6, <2>7
<1>10. rvalue \in Fours /\ base <= rvalue /\ rvalue + 16 <= StackTop
  <2> DEFINE f == CallerFrame(c).rvalue
             s == CallerFrame(c).size
  <2>1. f \in Fours /\ s \in Fours /\ f + 16 <= s
    BY <1>6, CallerFrameOK
  <2>2. /\ rvalue = base + f /\ base + s <= StackTop /\ base \in Sixteens
    BY <1>4, <1>5 DEF CallOK, Before
  <2> HIDE DEF f, s, base, rvalue
  <2>3. f \in Nat /\ s \in Nat /\ base \in Nat /\ base \in Fours
    BY <2>1, <2>2, SixteensAreFours DEF Fours
  <2>4. rvalue \in Fours
    BY <2>1, <2>2, <2>3, FoursAdd
  <2>5. base <= rvalue /\ rvalue + 16 <= StackTop
    BY <2>1, <2>2, <2>3, BoundsAssumption
  <2> QED
    BY <2>4, <2>5 DEF base, rvalue
<1>11. \A i \in 1..Len(ps) : rvalue + ps[i].at + ps[i].size <= StackTop
  <2> TAKE i \in 1..Len(ps)
  <2> DEFINE a == ps[i].at
             s == ps[i].size
  <2>1. a \in Nat /\ s \in Nat /\ a + s <= 16 /\ rvalue \in Nat
    BY <1>9, <1>10 DEF Fours
  <2> HIDE DEF a, s, rvalue
  <2>2. rvalue + a + s <= StackTop
    BY <1>10, <2>1, BoundsAssumption
  <2> QED
    BY <2>2 DEF a, s
<1>12. DOMAIN mem = Addresses /\ DOMAIN m = Addresses /\ DOMAIN back = Addresses
       /\ DOMAIN Below(back, base) = Addresses
  <2>1. DOMAIN mem = Addresses
    BY DEF MemOK
  <2>2. DOMAIN m = Addresses
    BY <2>1, SameDomain
  <2> HIDE DEF m
  <2>3. DOMAIN back = Addresses
    BY <2>2, SameDomain
  <2> HIDE DEF back
  <2> QED
    BY <2>1, <2>2, <2>3, SameDomain
<1>13. Read(back, rvalue, ps) = result
  <2>1. CASE to = rvalue /\ ~(top.target # "c" /\ HasResult(p))
    <3>1. back = m
      BY <2>1
    <3>2. Read(StoreAll(mem, ResultStores(c, n, rvalue)), rvalue, ps) = result
      BY <1>6, <1>10, <1>11, <1>12, ResultStored
    <3> QED
      BY <2>1, <3>1, <3>2
  <2>2. CASE top.target # "c" /\ HasResult(p)
    <3>1. to = top.funRvalue /\ to \in Fours /\ to + ByteSize(p) <= StackTop
      <4>1. /\ to = top.funRvalue /\ to \in Fours /\ to + ByteSize(p) <= top.saved
            /\ top.saved <= base /\ top.saved \in Sixteens
        BY <1>4, <1>5, <2>2 DEF CallOK
      <4>2. ByteSize(p) \in {4, 8}
        BY <1>9, <2>2
      <4> DEFINE size == ByteSize(p)
                 s == top.saved
      <4>3. to \in Nat /\ s \in Nat /\ size \in Nat /\ to + size <= s /\ s <= base /\ rvalue \in Nat
        BY <1>10, <4>1, <4>2 DEF Fours, Sixteens
      <4> HIDE DEF to, size, s, base, rvalue, p
      <4>4. to + size <= StackTop
        BY <1>8, <1>10, <4>3, BoundsAssumption
      <4> QED
        BY <4>1, <4>4 DEF size
    <3> DEFINE words == Load(m, to, ByteSize(p))
    <3>2. back = Store(m, rvalue, words)
      BY <2>2
    <3>3. Len(ps) = 1 /\ ps[1].at = 0 /\ ps[1].size = ByteSize(p) /\ ByteSize(p) \in {4, 8}
          /\ DOMAIN ps = 1..1
      BY <1>9, <2>2
    <3>4. Read(m, to, ps) = result
      <4> HIDE DEF to, p, ps
      <4>1. \A i \in 1..Len(ps) : to + ps[i].at + ps[i].size <= StackTop
        <5>1. to \in Nat
          BY <3>1 DEF Fours
        <5> QED
          BY <3>1, <3>3, <5>1
      <4> QED
        BY <1>6, <1>12, <3>1, <4>1, ResultStored DEF ps
    <3>5. result[1] \in Seq(Int) /\ 4 * Len(result[1]) = ByteSize(p) /\ result = [i \in 1..1 |-> result[1]]
      <4> HIDE DEF p
      <4>1. /\ result = [i \in 1..Len(ps) |-> result[i]]
            /\ \A i \in 1..Len(ps) : result[i] \in Seq(Int) /\ 4 * Len(result[i]) = ps[i].size
        BY <1>2, <1>6, ResultWords
      <4> HIDE DEF ps, result
      <4> QED
        BY <3>3, <4>1
    <3>6. words = result[1]
      <4>1. Read(m, to, ps)[1] = Load(m, to + ps[1].at, ps[1].size)
        BY <3>3 DEF Read
      <4>2. to + ps[1].at = to
        <5>1. to \in Nat
          BY <3>1 DEF Fours
        <5> HIDE DEF to, ps
        <5> QED
          BY <3>3, <5>1
      <4> HIDE DEF to, ps, m, result, p
      <4> QED
        BY <3>3, <3>4, <4>1, <4>2
    <3> HIDE DEF words, m, to
    <3>7. Load(back, rvalue, ByteSize(p)) = result[1]
      <4>1. ByteSize(p) \in Nat /\ rvalue \in Nat
        BY <1>10, <3>3 DEF Fours
      <4>2. rvalue + 4 * Len(words) <= StackTop
        <5> HIDE DEF p, result, rvalue
        <5> QED
          BY <1>10, <3>3, <3>5, <3>6, <4>1, BoundsAssumption, SMTT(30)
      <4>3. words \in Seq(Int) /\ 4 * Len(words) = ByteSize(p)
        BY <3>5, <3>6
      <4> HIDE DEF rvalue, p, result
      <4> QED
        BY <1>10, <1>12, <3>2, <3>6, <4>2, <4>3, LoadStore
    <3>8. Read(back, rvalue, ps) = [i \in 1..1 |-> Load(back, rvalue, ByteSize(p))]
      <4>1. rvalue + 0 = rvalue
        BY <1>10 DEF Fours
      <4> HIDE DEF rvalue, p, back, ps
      <4>2. Read(back, rvalue, ps) = [i \in 1..1 |-> Load(back, rvalue + ps[i].at, ps[i].size)]
        BY <3>3 DEF Read
      <4>3. \A i \in 1..1 : rvalue + ps[i].at = rvalue /\ ps[i].size = ByteSize(p)
        BY <3>3, <4>1
      <4> QED
        BY <4>2, <4>3
    <3> HIDE DEF result, back, rvalue, ps, p
    <3> QED
      BY <3>5, <3>7, <3>8
  <2>3. CASE to # rvalue /\ ~(top.target # "c" /\ HasResult(p))
    <3>1. top.target # "c" /\ ~HasResult(p) /\ ~IsAggregate(p)
      BY <1>4, <1>5, <2>3 DEF CallOK
    <3>2. Len(ps) = 0
      BY <1>9, <3>1
    <3>3. DOMAIN ps = {} /\ DOMAIN result = {}
      <4>1. DOMAIN result = 1..Len(ps)
        BY <1>2, <1>6, ResultWords
      <4> HIDE DEF ps, result
      <4> QED
        BY <1>9, <3>2, <4>1
    <3>4. result = [i \in {} |-> 0]
      <4>1. result = [i \in 1..Len(ps) |-> result[i]]
        BY <1>2, <1>6, ResultWords
      <4> HIDE DEF result, ps
      <4> QED
        BY <3>3, <4>1
    <3>5. Read(back, rvalue, ps) = [i \in {} |-> 0]
      <4> HIDE DEF back, rvalue, ps
      <4> QED
        BY <3>3 DEF Read
    <3> QED
      BY <3>4, <3>5
  <2> QED
    BY <2>1, <2>2, <2>3
<1>14. Read(mem', rvalue, ps) = result
  <2>1. mem' = Below(back, base)
    BY <1>7, <1>8
  <2>2. Read(Below(back, base), rvalue, ps) = Read(back, rvalue, ps)
    <3> HIDE DEF back, base, rvalue, ps
    <3> QED
      BY <1>8, <1>9, <1>10, <1>11, <1>12, ReadAbove DEF base
  <2> HIDE DEF back, base, rvalue, ps, result
  <2> QED
    BY <1>13, <2>1, <2>2
<1> HIDE DEF back, m, to
<1> DEFINE new == [cif |-> c, target |-> top.target, base |-> base, operands |-> top.operands,
                   saved |-> top.saved, avalue |-> top.avalue, rvalue |-> rvalue,
                   funAvalue |-> top.funAvalue, funRvalue |-> top.funRvalue, state |-> "back"]
<1>15. [top EXCEPT !.state = "back"] = new
  BY <1>4, <1>5 DEF CallOK
<1>16. CallOK(new)
  <2>1. Before(new) = Before(top) /\ Entered(new) = Entered(top)
    BY <1>5 DEF Before, Entered
  <2>2. /\ new.cif = top.cif /\ new.target = top.target /\ new.base = top.base
        /\ new.operands = top.operands /\ new.saved = top.saved /\ new.rvalue = top.rvalue
        /\ new.funRvalue = top.funRvalue
        /\ new = [cif |-> new.cif, target |-> new.target, base |-> new.base,
             operands |-> new.operands, saved |-> new.saved, avalue |-> new.avalue,
             rvalue |-> new.rvalue, funAvalue |-> new.funAvalue,
             funRvalue |-> new.funRvalue, state |-> new.state]
    BY <1>5
  <2> HIDE DEF new, p, ps, result
  <2> QED
    BY <1>4, <2>1, <2>2 DEF CallOK
<1>17. /\ Before(new) = Before(top) /\ Entered(new) = Entered(top) /\ new.state = "back"
       /\ new.cif = c /\ new.base = base /\ new.rvalue = rvalue
  BY <1>5 DEF Before, Entered
<1>18. /\ calls' \in Seq(S \union {new}) /\ Len(calls') = n /\ calls'[n] = new
       /\ \A d \in 1..n : d # n => calls'[d] = calls[d]
  <2> DEFINE T == S \union {new}
  <2>1. calls \in Seq(T) /\ new \in T
    BY <1>1
  <2>2. calls' = [calls EXCEPT ![n] = new]
    BY <1>2, <1>3, <1>7, <1>15
  <2> HIDE DEF T, new
  <2>3. /\ calls' \in Seq(T) /\ Len(calls') = n /\ calls'[n] = new
        /\ \A d \in 1..n : d # n => calls'[d] = calls[d]
    BY <1>2, <2>1, <2>2
  <2> QED
    BY <2>3 DEF T
<1> HIDE DEF new
<1>19. CallsNest'
  <2>1. \E T : calls' \in Seq(T)
    BY <1>18
  <2>2. \A d \in 1..n : CallOK(calls'[d])
    BY <1>2, <1>16, <1>18 DEF CallsNest
  <2>3. \A d \in 1..n : Before(calls'[d]) = Before(calls[d]) /\ Entered(calls'[d]) = Entered(calls[d])
    BY <1>3, <1>17, <1>18
  <2>4. \A d \in 1..n : Before(calls'[d]) = IF d = 1 THEN StackTop ELSE Entered(calls'[d - 1])
    <3> TAKE d \in 1..n
    <3>1. d # 1 => d - 1 \in 1..n
      OBVIOUS
    <3> QED
      BY <1>2, <2>3, <3>1 DEF CallsNest
  <2>5. \A d \in 1..n : calls'[d].state = "running" \/ (d = n /\ calls'[d].state = "back")
    BY <1>2, <1>17, <1>18 DEF CallsNest
  <2> QED
    BY <1>18, <2>1, <2>2, <2>4, <2>5 DEF CallsNest
<1>20. calls' # <<>> /\ Top' = new
  BY <1>2, <1>18 DEF Top
<1>21. StackIsBalanced'
  BY <1>7, <1>8, <1>17, <1>20 DEF StackIsBalanced
<1>22. MemOK'
  BY <1>7, <1>8, <1>12 DEF MemOK
<1>23. CallsComeBack'
  BY <1>7, <1>8, <1>14, <1>17, <1>18, <1>20 DEF CallsComeBack
<1> QED
  BY <1>19, <1>21, <1>22, <1>23

\* No other step touches the shadow stack.
LEMMA StackStep == StackInv /\ [Next]_vars => StackInv'
<1> SUFFICES ASSUME StackInv, [Next]_vars PROVE StackInv'
  OBVIOUS
<1>1. CASE TearDown /\ FfiGone
  <2>1. calls' = <<>> /\ mem' = NoStack /\ sp' = StackTop
    BY <1>1 DEF FfiGone
  <2>2. calls' \in Seq({}) /\ Len(calls') = 0
    BY <2>1
  <2>3. CallsNest'
    <3>1. \E S : calls' \in Seq(S)
      BY <2>2
    <3> QED
      BY <2>2, <3>1 DEF CallsNest
  <2>4. MemOK'
    BY <2>1 DEF MemOK, NoStack, Addresses
  <2> QED
    BY <2>1, <2>3, <2>4 DEF StackInv, StackIsBalanced, CallsComeBack
<1>2. CASE (Build \/ GoesWithout \/ Fail \/ Release \/ Ended) /\ UNCHANGED ffiVars
  BY <1>2, StackStutter DEF ffiVars, stackVars
<1>3. CASE FfiNext
  <2>1. CASE \E sig \in Sigs, works \in BOOLEAN : PrepTrampoline(sig, works)
    BY <2>1, StackStutter DEF PrepTrampoline, stackVars
  <2>2. CASE \E k \in Closures : ClosureAlloc(k)
    BY <2>2, StackStutter DEF ClosureAlloc, stackVars
  <2>3. CASE \E k \in Closures, c \in Cifs, works \in BOOLEAN : PrepClosure(k, c, works)
    BY <2>3, StackStutter DEF PrepClosure, stackVars
  <2>4. CASE \E c \in Cifs, k \in Closures \union {"c"} : Dispatch(c, k)
    BY <2>4, StackGrows
  <2>5. CASE TargetReturns
    BY <2>5, StackReturns
  <2>6. CASE CallerGoesOn
    BY <2>6, StackPops
  <2>7. QED
    BY <1>3, <2>1, <2>2, <2>3, <2>4, <2>5, <2>6 DEF FfiNext
<1>4. CASE UNCHANGED vars
  BY <1>4, StackStutter DEF vars, ffiVars, stackVars
<1>5. QED
  BY <1>1, <1>2, <1>3, <1>4 DEF Next

\* When an ffi_call comes back its caller has the result, whatever the signature and the
\* depth: a scalar from a closure's own frame, an aggregate where the hidden pointer says;
\* and the stack pointer is the caller's, with or without a variadic buffer in between.
THEOREM CallsReturn == Spec => []CallsComeBack
<1>1. Init => StackInv
  BY StackStart DEF Init, FfiInit
<1>2. StackInv => CallsComeBack
  BY DEF StackInv
<1>3. QED
  BY <1>1, <1>2, StackStep, PTL DEF Spec

\* The stack pointer always is where the innermost call leaves it: every frame and buffer
\* the trampolines push is popped, call by call.
THEOREM StackBalances == Spec => []StackIsBalanced
<1>1. Init => StackInv
  BY StackStart DEF Init, FfiInit
<1>2. StackInv => StackIsBalanced
  BY DEF StackInv
<1>3. QED
  BY <1>1, <1>2, StackStep, PTL DEF Spec

-----------------------------------------------------------------------------
(* Arguments: sizes, pieces and memory.                                   *)

-----------------------------------------------------------------------------
(* The descriptor agrees with C.                                           *)

\* C types are scalars and structs of scalars.
LEMMA CTypeForms ==
  ASSUME NEW t \in CTypes
  PROVE  \/ t.tag \in ScalarTags \union {"void"} /\ t.fields = <<>> /\ t.tag # "struct"
         \/ \E f \in Seq(ScalarTags) : t = Struct(f)
<1>1. CASE t \in [tag : ScalarTags \union {"void"}, fields : {<<>>}]
  BY <1>1 DEF ScalarTags
<1>2. CASE t \in [tag : {"struct"}, fields : Seq(ScalarTags)]
  <2>1. t.fields \in Seq(ScalarTags) /\ t = Struct(t.fields)
    BY <1>2 DEF Struct
  <2> QED
    BY <2>1
<1> QED
  BY <1>1, <1>2 DEF CTypes

\* The forms a type of at most 16 bytes takes in the descriptor.
LEMMA SmallForms ==
  ASSUME NEW t \in CTypes, CSize(t) <= 16
  PROVE  \/ t.tag \in ScalarTags \union {"void"} /\ t.fields = <<>> /\ encode_type(t) = Scalar(ValType(t.tag))
         \/ t = Struct(<<>>) /\ encode_type(t) = Scalar("void")
         \/ \E s \in ScalarTags : t = Struct(<<s>>) /\ encode_type(t) = Scalar(ValType(s))
         \/ \E f \in Seq(ScalarTags) :
              /\ t = Struct(f) /\ Len(f) > 1
              /\ encode_type(t) = Struct([i \in 1..Len(f) |-> ValType(f[i])])
<1>0. ~(CSize(t) > 16)
  BY CValue DEF Fours
<1>1. CASE t.tag \in ScalarTags \union {"void"} /\ t.fields = <<>> /\ t.tag # "struct"
  BY <1>1 DEF encode_type, unbox_single_struct
<1>2. ASSUME NEW f \in Seq(ScalarTags), t = Struct(f)
      PROVE  \/ t = Struct(<<>>) /\ encode_type(t) = Scalar("void")
             \/ \E s \in ScalarTags : t = Struct(<<s>>) /\ encode_type(t) = Scalar(ValType(s))
             \/ /\ Len(f) > 1
                /\ encode_type(t) = Struct([i \in 1..Len(f) |-> ValType(f[i])])
  <2>1. t.tag = "struct" /\ t.fields = f /\ Len(f) \in Nat
    BY <1>2 DEF Struct
  <2>2. CASE Len(f) = 0
    <3>1. f = <<>>
      BY <2>2
    <3>2. unbox_single_struct(t) = Scalar("void")
      BY <1>0, <2>1, <2>2, <3>1 DEF unbox_single_struct
    <3>3. encode_type(t) = Scalar("void")
      BY <3>2 DEF encode_type, Scalar, ValType
    <3> QED
      BY <1>2, <3>1, <3>3
  <2>3. CASE Len(f) = 1
    <3>1. f # <<>> /\ f[1] \in ScalarTags /\ f = <<f[1]>>
      BY <2>3
    <3>2. unbox_single_struct(t) = Scalar(f[1])
      BY <1>0, <2>1, <2>3, <3>1 DEF unbox_single_struct
    <3>3. encode_type(t) = Scalar(ValType(f[1]))
      BY <3>1, <3>2 DEF encode_type, Scalar, ScalarTags
    <3> QED
      BY <1>2, <3>1, <3>3
  <2>4. CASE Len(f) > 1
    <3>1. unbox_single_struct(t) = t
      BY <2>4, <2>1 DEF unbox_single_struct
    <3>2. encode_type(t) = Struct([i \in DOMAIN t.fields |-> ValType(t.fields[i])])
      BY <1>0, <2>1, <3>1 DEF encode_type
    <3>3. DOMAIN t.fields = 1..Len(f) /\ t.fields = f
      BY <2>1
    <3>4. encode_type(t) = Struct([i \in 1..Len(f) |-> ValType(f[i])])
      BY <3>2, <3>3
    <3> QED
      BY <2>4, <3>4
  <2>5. Len(f) = 0 \/ Len(f) = 1 \/ Len(f) > 1
    <3>1. \A n \in Nat : n = 0 \/ n = 1 \/ n > 1
      OBVIOUS
    <3> QED
      BY <2>1, <3>1, Zenon
  <2> QED
    BY <2>2, <2>3, <2>4, <2>5, Zenon
<1> QED
  BY <1>1, <1>2, CTypeForms

\* A scalar of the descriptor is as wide as in C, and aligned as in C up to 8.
LEMMA ScalarAgrees ==
  ASSUME NEW s \in ScalarTags
  PROVE  /\ ByteSize(Scalar(ValType(s))) = Width(s)
         /\ CAlign(Scalar(s)) = (IF Width(s) <= 4 THEN 4 ELSE Width(s))
         /\ naturalAlign(Scalar(ValType(s))) = (IF Width(s) <= 4 THEN 4 ELSE 8)
         /\ Pieces(Scalar(ValType(s))) = CPieces(Scalar(s))
<1>1. Scalar(s).tag = s /\ Scalar(s).fields = <<>>
  BY DEF Scalar
<1>2. CASE s = "longdouble"
  <2>1. CPieces(Scalar(s)) = <<[at |-> 0, size |-> 8], [at |-> 8, size |-> 8]>>
    BY <1>1, <1>2, ScalarPieces
  <2> QED
    BY <1>1, <1>2, <2>1 DEF Scalar, ValType, ByteSize, Width, naturalAlign, CAlign, Pieces
<1>3. CASE s # "longdouble"
  <2>1. CPieces(Scalar(s)) = <<[at |-> 0, size |-> Width(s)]>>
    BY <1>1, <1>3, ScalarPieces DEF ScalarTags
  <2>2. ByteSize(Scalar(ValType(s))) = Width(s)
    BY <1>3 DEF ScalarTags, Scalar, ValType, ByteSize, Width
  <2>3. Pieces(Scalar(ValType(s))) = <<[at |-> 0, size |-> ByteSize(Scalar(ValType(s)))]>>
    BY <1>3 DEF ScalarTags, Scalar, ValType, Pieces
  <2>4. /\ CAlign(Scalar(s)) = (IF Width(s) <= 4 THEN 4 ELSE Width(s))
        /\ naturalAlign(Scalar(ValType(s))) = (IF Width(s) <= 4 THEN 4 ELSE 8)
    BY <1>3 DEF ScalarTags, Scalar, ValType, naturalAlign, CAlign, Width
  <2> QED
    BY <2>1, <2>2, <2>3, <2>4
<1> QED
  BY <1>2, <1>3

\* A type without padding is as wide in the descriptor as in C.
LEMMA PackedSize ==
  ASSUME NEW t \in CTypes, CSize(t) <= 16, NoPadding(t)
  PROVE  ByteSize(encode_type(t)) = CSize(t)
<1>1. CASE t.tag \in ScalarTags \union {"void"} /\ t.fields = <<>> /\ encode_type(t) = Scalar(ValType(t.tag))
  <2>1. CSize(t) = Width(t.tag)
    BY <1>1 DEF CSize, ScalarTags
  <2>2. CASE t.tag = "void"
    BY <1>1, <2>1, <2>2 DEF ByteSize, Scalar, ValType, Width
  <2>3. CASE t.tag \in ScalarTags
    BY <1>1, <2>1, <2>3, ScalarAgrees
  <2> QED
    BY <1>1, <2>2, <2>3
<1>2. ASSUME NEW f \in Seq(ScalarTags), t = Struct(f)
      PROVE  /\ CSize(t) = Place([i \in 1..Len(f) |-> [align |-> 1, size |-> Width(f[i])]]).end
             /\ Len(f) = 0 => CSize(t) = 0
             /\ Len(f) = 1 => CSize(t) = Width(f[1])
  <2> DEFINE x == [i \in 1..Len(f) |-> [align |-> 1, size |-> Width(f[i])]]
             e == Ends(x)
  <2>1. t.tag = "struct" /\ t.fields = f /\ DOMAIN f = 1..Len(f)
    BY <1>2 DEF Struct
  <2>2. CSize(t) = Place(x).end
    BY <2>1 DEF NoPadding
  <2>3. \A i \in 1..Len(f) : [align |-> 1, size |-> Width(f[i])] \in Extent
    BY CScalar DEF Extent, Aligns
  <2>4. /\ x \in Seq(Extent) /\ Len(x) = Len(f)
        /\ \A i \in 1..Len(f) : x[i] = [align |-> 1, size |-> Width(f[i])]
    BY <2>3
  <2> HIDE DEF x
  <2>5. \A i \in 0..Len(x) : e[i] = IF i = 0 THEN 0 ELSE alignUp(e[i - 1], x[i].align) + x[i].size
    BY <2>4, EndsUpto DEF Upto
  <2>6. Place(x).end = e[Len(x)]
    BY DEF Place
  <2> HIDE DEF e
  <2>7. Len(f) = 0 => CSize(t) = 0
    BY <2>2, <2>4, <2>5, <2>6
  <2>8. ASSUME Len(f) = 1 PROVE CSize(t) = Width(f[1])
    <3>1. e[0] = 0 /\ e[1] = alignUp(e[0], x[1].align) + x[1].size
      BY <2>4, <2>5, <2>8
    <3>2. x[1].align = 1 /\ x[1].size = Width(f[1]) /\ Width(f[1]) \in Nat
      <4>1. x[1] = [align |-> 1, size |-> Width(f[1])] /\ f[1] \in ScalarTags
        BY <2>4, <2>8
      <4> QED
        BY <4>1, CScalar
    <3>3. alignUp(0, 1) = 0
      BY DEF alignUp
    <3> QED
      BY <2>2, <2>4, <2>6, <2>8, <3>1, <3>2, <3>3
  <2> QED
    BY <2>2, <2>7, <2>8 DEF x
<1>3. CASE t = Struct(<<>>) /\ encode_type(t) = Scalar("void")
  <2>1. CSize(t) = 0
    <3>1. PICK f : f = <<>>
      OBVIOUS
    <3>2. f \in Seq(ScalarTags) /\ Len(f) = 0
      BY <3>1
    <3> QED
      BY <1>2, <1>3, <3>1, <3>2
  <2> QED
    BY <1>3, <2>1 DEF ByteSize, Scalar
<1>4. ASSUME NEW s \in ScalarTags, t = Struct(<<s>>), encode_type(t) = Scalar(ValType(s))
      PROVE  ByteSize(encode_type(t)) = CSize(t)
  <2>1. PICK f \in Seq(ScalarTags) : f = <<s>> /\ Len(f) = 1 /\ f[1] = s
    <3>1. <<s>> \in Seq(ScalarTags) /\ Len(<<s>>) = 1 /\ <<s>>[1] = s
      OBVIOUS
    <3> QED
      BY <3>1
  <2>2. CSize(t) = Width(s)
    BY <1>2, <1>4, <2>1
  <2> QED
    BY <1>4, <2>2, ScalarAgrees
<1>5. ASSUME NEW f \in Seq(ScalarTags), t = Struct(f), Len(f) > 1,
             encode_type(t) = Struct([i \in 1..Len(f) |-> ValType(f[i])])
      PROVE  ByteSize(encode_type(t)) = CSize(t)
  <2> DEFINE p == encode_type(t)
             Of(tag) == CASE tag = "void" -> 0 [] tag \in {"i32", "f32"} -> 4
                          [] tag = "longdouble" -> 16 [] OTHER -> 8
             y == [i \in DOMAIN p.fields |-> [align |-> 1, size |-> Of(p.fields[i])]]
             x == [i \in 1..Len(f) |-> [align |-> 1, size |-> Width(f[i])]]
  <2>1. p.tag = "struct" /\ DOMAIN p.fields = 1..Len(f) /\ \A i \in 1..Len(f) : p.fields[i] = ValType(f[i])
    BY <1>5 DEF Struct
  <2> HIDE DEF p
  <2>2. ByteSize(p) = Place(y).end
    BY <2>1 DEF ByteSize
  <2>3. \A i \in 1..Len(f) : Of(p.fields[i]) = Width(f[i])
    <3> TAKE i \in 1..Len(f)
    <3>1. f[i] \in ScalarTags /\ p.fields[i] = ValType(f[i])
      BY <2>1
    <3> QED
      BY <3>1 DEF ScalarTags, ValType, Width
  <2>4. y = x
    <3> HIDE DEF Of
    <3> QED
      BY <2>1, <2>3
  <2>5. CSize(t) = Place(x).end
    BY <1>2, <1>5
  <2> HIDE DEF x, y
  <2>6. ByteSize(p) = CSize(t)
    BY <2>2, <2>4, <2>5
  <2> QED
    BY <2>6 DEF p
<1> QED
  BY <1>1, <1>3, <1>4, <1>5, SmallForms

\* What SizesKept says of the descriptor.
LEMMA KeptSizes ==
  ASSUME NEW c \in Cifs, SizesKept(c), NEW i \in 1..Len(c.args)
  PROVE  CSize(c.args[i]) <= 16 /\ ByteSize(encode_type(c.args[i])) = CSize(c.args[i])
<1>1. c.args[i] \in CTypes /\ i \in DOMAIN c.args
  BY CifOK
<1>2. ~(CSize(c.args[i]) > 16) /\ NoPadding(c.args[i])
  BY <1>1 DEF SizesKept, ByPointer
<1>3. CSize(c.args[i]) \in Nat
  BY <1>1, CValue DEF Fours
<1>4. CSize(c.args[i]) <= 16
  BY <1>2, <1>3
<1> QED
  BY <1>1, <1>2, <1>4, PackedSize

\* A long double fills 16 bytes: no other field is with it.
LEMMA NoLongDouble ==
  ASSUME NEW f \in Seq(ScalarTags), Len(f) > 1, CSize(Struct(f)) <= 16, NEW i \in 1..Len(f)
  PROVE  f[i] # "longdouble"
<1> DEFINE t == Struct(f)
           x == CFields(t)
           n == Len(f)
<1>1. /\ x \in Seq(Extent) /\ Len(x) = n /\ n \in Nat
      /\ \A j \in 1..n : x[j].size = Width(f[j]) /\ f[j] \in ScalarTags
  <2>1. /\ x \in Seq(Extent) /\ Len(x) = n
        /\ \A j \in 1..n : x[j] = [align |-> CAlign(Scalar(f[j])), size |-> Width(f[j])]
    BY CFieldExtents
  <2> HIDE DEF x
  <2>2. \A j \in 1..n : x[j].size = Width(f[j]) /\ f[j] \in ScalarTags
    <3> TAKE j \in 1..n
    <3>1. x[j] = [align |-> CAlign(Scalar(f[j])), size |-> Width(f[j])]
      BY <2>1
    <3> QED
      BY <3>1
  <2> QED
    BY <2>1, <2>2
<1>2. t \in CTypes /\ t.tag = "struct"
  BY DEF Struct, CTypes
<1>3. CSize(t) \in Nat /\ CAlign(t) \in {4, 8, 16}
  BY <1>2, CValue DEF Fours
<1>4. CSize(t) = alignUp(Place(x).end, CAlign(t))
  BY <1>2 DEF CSize
<1> HIDE DEF t, x, n
<1>5. /\ Place(x).end \in Fours
      /\ Place(x).at \in [1..n -> Fours]
      /\ \A j \in 1..n : Place(x).at[j] + x[j].size <= Place(x).end
      /\ \A j, k \in 1..n : j < k => Place(x).at[j] + x[j].size <= Place(x).at[k]
  BY <1>1, Placed
<1>6. Place(x).end <= CSize(t)
  BY <1>3, <1>4, <1>5, AlignUp DEF Aligns
<1>7. CSize(t) <= 16
  BY DEF t
<1>8. \A j \in 1..n : x[j].size \in {4, 8, 16} /\ Place(x).at[j] \in Nat
  <2> TAKE j \in 1..n
  <2>1. x[j].size \in {4, 8, 16}
    BY <1>1, CScalar
  <2>2. Place(x).at[j] \in Nat
    BY <1>5 DEF Fours
  <2> QED
    BY <2>1, <2>2
<1>9. PICK j \in 1..n : j # i /\ i \in 1..n
  <2>1. 1 \in 1..n /\ 2 \in 1..n
    BY <1>1 DEF n
  <2> QED
    BY <2>1 DEF n
<1>10. SUFFICES ASSUME x[i].size = 16 PROVE FALSE
  BY <1>1, <1>9 DEF Width
<1>11. Place(x).end \in Nat /\ Place(x).end <= 16
  BY <1>3, <1>5, <1>6, <1>7 DEF Fours
<1>12. /\ Place(x).at[i] \in Nat /\ Place(x).at[j] \in Nat /\ x[j].size \in {4, 8, 16}
       /\ Place(x).at[i] + x[i].size <= Place(x).end
       /\ Place(x).at[j] + x[j].size <= Place(x).end
  BY <1>5, <1>8, <1>9
<1>13. CASE j < i
  <2>1. Place(x).at[j] + x[j].size <= Place(x).at[i]
    BY <1>5, <1>9, <1>13
  <2>2. Place(x).at[i] + 16 <= 16
    BY <1>10, <1>11, <1>12
  <2> QED
    BY <2>1, <2>2, <1>12
<1>14. CASE i < j
  <2>1. Place(x).at[i] + x[i].size <= Place(x).at[j]
    BY <1>5, <1>9, <1>14
  <2>2. Place(x).at[i] + 16 <= Place(x).at[j]
    BY <2>1, <1>10
  <2>3. Place(x).at[j] + x[j].size <= 16
    BY <1>11, <1>12
  <2>4. Place(x).at[j] < 16 /\ Place(x).at[i] \in Nat /\ Place(x).at[j] \in Nat
    <3>1. Place(x).at[j] \in Nat /\ x[j].size \in {4, 8, 16}
      BY <1>12
    <3> QED
      BY <3>1, <2>3, <1>12
  <2> QED
    BY <2>2, <2>4
<1> QED
  BY <1>1, <1>9, <1>13, <1>14

\* What a trampoline moves one by one are the scalars of the C value.
LEMMA SamePieces ==
  ASSUME NEW t \in CTypes, CSize(t) <= 16
  PROVE  Pieces(encode_type(t)) = CPieces(t)
<1>1. CASE t.tag \in ScalarTags \union {"void"} /\ t.fields = <<>> /\ encode_type(t) = Scalar(ValType(t.tag))
  <2>1. t = Scalar(t.tag)
    <3>1. t.tag # "struct"
      BY <1>1 DEF ScalarTags
    <3> QED
      BY <1>1, <3>1 DEF CTypes, Scalar
  <2>2. CASE t.tag = "void"
    <3>1. CPieces(t) = <<>>
      BY <1>1, <2>2, ScalarPieces
    <3> QED
      BY <1>1, <2>2, <3>1 DEF ValType, Scalar, Pieces
  <2>3. CASE t.tag # "void"
    <3>1. t.tag \in ScalarTags
      BY <1>1, <2>3
    <3> QED
      BY <1>1, <2>1, <3>1, ScalarAgrees
  <2> QED
    BY <2>2, <2>3
<1>2. CASE t = Struct(<<>>) /\ encode_type(t) = Scalar("void")
  <2>1. t.tag = "struct" /\ t.fields = <<>> /\ DOMAIN t.fields = {} /\ t.fields # <<"longdouble">>
    BY <1>2 DEF Struct
  <2>2. CPieces(t) = [i \in DOMAIN t.fields |-> [at   |-> Place(CFields(t)).at[i],
                                                 size |-> Width(t.fields[i])]]
    BY <2>1, StructPieces
  <2>3. CPieces(t) = <<>>
    BY <2>1, <2>2
  <2> QED
    BY <1>2, <2>3 DEF Scalar, Pieces
<1>3. ASSUME NEW s \in ScalarTags, t = Struct(<<s>>), encode_type(t) = Scalar(ValType(s))
      PROVE  Pieces(encode_type(t)) = CPieces(t)
  <2>1. t.tag = "struct" /\ t.fields = <<s>>
    BY <1>3 DEF Struct
  <2>2. CASE s = "longdouble"
    <3>1. CPieces(t) = <<[at |-> 0, size |-> 8], [at |-> 8, size |-> 8]>>
      BY <2>1, <2>2, StructPieces
    <3> QED
      BY <1>3, <2>2, <3>1 DEF Scalar, ValType, Pieces
  <2>3. CASE s # "longdouble"
    <3> DEFINE x == CFields(t)
    <3>1. t.fields # <<"longdouble">>
      <4>1. <<s>>[1] = s /\ <<"longdouble">>[1] = "longdouble"
        OBVIOUS
      <4> QED
        BY <2>1, <2>3, <4>1
    <3>2. CPieces(t) = [i \in DOMAIN t.fields |-> [at |-> Place(x).at[i], size |-> Width(t.fields[i])]]
      BY <2>1, <3>1, StructPieces
    <3>3. /\ x \in Seq(Extent) /\ Len(x) = 1
          /\ x[1] = [align |-> CAlign(Scalar(s)), size |-> Width(s)]
      <4>1. <<s>> \in Seq(ScalarTags) /\ Len(<<s>>) = 1 /\ <<s>>[1] = s
        OBVIOUS
      <4> DEFINE f == <<s>>
      <4> HIDE DEF f
      <4>2. f \in Seq(ScalarTags) /\ Len(f) = 1 /\ f[1] = s /\ t = Struct(f)
        BY <1>3, <4>1 DEF f
      <4>3. /\ CFields(Struct(f)) \in Seq(Extent) /\ Len(CFields(Struct(f))) = Len(f)
            /\ \A i \in 1..Len(f) :
                 CFields(Struct(f))[i] = [align |-> CAlign(Scalar(f[i])), size |-> Width(f[i])]
        BY <4>2, CFieldExtents
      <4> QED
        BY <4>2, <4>3
    <3> HIDE DEF x
    <3>4. Place(x).at[1] = 0
      <4>1. Place(x).at[1] = alignUp(0, CAlign(Scalar(s)))
        BY <3>3, Placed
      <4>2. CAlign(Scalar(s)) \in {4, 8, 16}
        BY CScalar
      <4> QED
        BY <4>1, <4>2 DEF alignUp
    <3>5. CPieces(t) = <<[at |-> 0, size |-> Width(s)]>>
      <4>1. DOMAIN t.fields = 1..1 /\ t.fields[1] = s
        BY <2>1
      <4>2. CPieces(t) = [i \in 1..1 |-> [at |-> 0, size |-> Width(s)]]
        BY <3>2, <3>4, <4>1
      <4> QED
        BY <4>2
    <3>6. Pieces(Scalar(ValType(s))) = <<[at |-> 0, size |-> Width(s)]>>
      <4>1. Scalar(s).tag = s /\ Scalar(s).fields = <<>>
        BY DEF Scalar
      <4>2. CPieces(Scalar(s)) = <<[at |-> 0, size |-> Width(s)]>>
        BY <2>3, <4>1, ScalarPieces DEF ScalarTags
      <4> QED
        BY <4>2, ScalarAgrees
    <3> QED
      BY <1>3, <3>5, <3>6
  <2> QED
    BY <2>2, <2>3
<1>4. ASSUME NEW f \in Seq(ScalarTags), t = Struct(f), Len(f) > 1,
             encode_type(t) = Struct([i \in 1..Len(f) |-> ValType(f[i])])
      PROVE  Pieces(encode_type(t)) = CPieces(t)
  <2> DEFINE p == encode_type(t)
             x == CFields(t)
             y == Extents(Fields(p))
             n == Len(f)
  <2>1. /\ t.tag = "struct" /\ t.fields = f /\ DOMAIN t.fields = 1..n
        /\ p.tag = "struct" /\ DOMAIN p.fields = 1..n /\ \A i \in 1..n : p.fields[i] = ValType(f[i])
    BY <1>4 DEF Struct
  <2>2. f # <<"longdouble">>
    BY <1>4
  <2>3. CPieces(t) = [i \in 1..n |-> [at |-> Place(x).at[i], size |-> Width(f[i])]]
    <3>1. CPieces(t) = [i \in DOMAIN t.fields |-> [at |-> Place(x).at[i], size |-> Width(t.fields[i])]]
      BY <2>1, <2>2, StructPieces
    <3> QED
      BY <2>1, <3>1
  <2>4. Pieces(p) = [i \in 1..n |-> [at |-> Place(y).at[i], size |-> ByteSize(Scalar(p.fields[i]))]]
    BY <2>1 DEF Pieces
  <2>5. \A i \in 1..n : /\ ByteSize(Scalar(p.fields[i])) = Width(f[i])
                        /\ naturalAlign(Scalar(p.fields[i])) = CAlign(Scalar(f[i]))
    <3> HIDE DEF p
    <3> TAKE i \in 1..n
    <3>1. f[i] \in ScalarTags /\ p.fields[i] = ValType(f[i]) /\ f[i] # "longdouble"
      BY <1>4, <2>1, NoLongDouble
    <3>2. Width(f[i]) \in {4, 8}
      BY <3>1, CScalar
    <3> QED
      BY <3>1, <3>2, ScalarAgrees
  <2>6. y = [i \in 1..n |-> [align |-> naturalAlign(Scalar(p.fields[i])), size |-> ByteSize(Scalar(p.fields[i]))]]
    <3>1. Fields(p) = [i \in 1..n |-> Scalar(p.fields[i])]
      BY <2>1 DEF Fields
    <3> QED
      BY <3>1 DEF Extents
  <2>7. x = [i \in 1..n |-> [align |-> CAlign(Scalar(f[i])), size |-> Width(f[i])]]
    BY <2>1 DEF CFields
  <2>8. x = y
    <3> HIDE DEF x, y, p
    <3> QED
      BY <2>5, <2>6, <2>7
  <2> HIDE DEF x, y, p
  <2>9. Pieces(p) = CPieces(t)
    BY <2>3, <2>4, <2>5, <2>8
  <2> QED
    BY <2>9 DEF p
<1> QED
  BY <1>1, <1>2, <1>3, <1>4, SmallForms

\* Above 16 bytes the descriptor has a pointer.
LEMMA KeptIsSmall ==
  ASSUME NEW t \in CTypes
  PROVE  /\ CSize(t) > 16 => encode_type(t) = Scalar("i32")
         /\ ByteSize(encode_type(t)) = CSize(t) => CSize(t) <= 16
<1>1. CSize(t) \in Nat
  BY CValue DEF Fours
<1>2. ASSUME CSize(t) > 16 PROVE encode_type(t) = Scalar("i32")
  <2>1. t.tag = "struct"
    <3> SUFFICES ASSUME t.tag # "struct" PROVE FALSE
      OBVIOUS
    <3>1. t.tag \in ScalarTags \union {"void"} /\ CSize(t) = Width(t.tag)
      BY DEF CTypes, CSize
    <3>2. Width(t.tag) <= 16
      BY <3>1 DEF ScalarTags, Width
    <3> QED
      BY <1>1, <1>2, <3>1, <3>2
  <2> QED
    BY <1>2, <2>1 DEF encode_type, unbox_single_struct
<1>3. ByteSize(Scalar("i32")) = 4
  BY DEF ByteSize, Scalar
<1> QED
  BY <1>1, <1>2, <1>3

\* Pieces of a parameter reach no further than 16 bytes, and no further than the
\* parameter if the descriptor kept its size.
LEMMA PieceEnds ==
  ASSUME NEW t \in CTypes
  PROVE  LET p == encode_type(t)
         IN /\ GoodPieces(Pieces(p), 16)
            /\ ByteSize(p) = CSize(t) => GoodPieces(Pieces(p), ByteSize(p))
<1> DEFINE p == encode_type(t)
           s == CSize(t)
           ps == Pieces(p)
<1>1. s \in Nat /\ GoodPieces(CPieces(t), s)
  BY CValue DEF Fours
<1>2. CASE s <= 16
  <2>1. GoodPieces(ps, s)
    BY <1>1, <1>2, SamePieces
  <2>2. /\ ps \in Seq([at : Fours, size : Fours])
        /\ \A i \in 1..Len(ps) : ps[i].at + ps[i].size <= s
        /\ \A i, j \in 1..Len(ps) : i < j => ps[i].at + ps[i].size <= ps[j].at
    BY <2>1 DEF GoodPieces
  <2> HIDE DEF ps, s
  <2>3. \A i \in 1..Len(ps) : ps[i].at \in Fours /\ ps[i].size \in Fours
    BY <2>2, PieceOK
  <2>4. \A i \in 1..Len(ps) : ps[i].at + ps[i].size <= 16
    <3> TAKE i \in 1..Len(ps)
    <3> DEFINE e == ps[i].at + ps[i].size
    <3>1. e \in Nat /\ e <= s
      <4>1. ps[i].at \in Nat /\ ps[i].size \in Nat
        BY <2>3 DEF Fours
      <4> QED
        BY <2>2, <4>1
    <3> HIDE DEF e
    <3>2. e <= 16
      BY <1>1, <1>2, <3>1
    <3> QED
      BY <3>2 DEF e
  <2>5. GoodPieces(ps, 16)
    BY <2>2, <2>4 DEF GoodPieces
  <2> QED
    BY <2>1, <2>5 DEF ps, s
<1>3. CASE s > 16
  <2>1. p = Scalar("i32") /\ ByteSize(p) # s
    BY <1>1, <1>3, KeptIsSmall
  <2>2. ps = <<[at |-> 0, size |-> 4]>>
    BY <2>1 DEF Pieces, Scalar, ByteSize
  <2>3. GoodPieces(ps, 16)
    BY <2>2 DEF GoodPieces, Fours
  <2> QED
    BY <2>1, <2>3
<1> QED
  BY <1>1, <1>2, <1>3

\* Multiples of four are placed alike by the descriptor's alignment and by C's up to 8.
AtMost8(align) == IF align > 8 THEN 8 ELSE align

LEMMA SameAlign ==
  ASSUME NEW t \in CTypes, CSize(t) <= 16, NEW n \in Fours
  PROVE  alignUp(n, naturalAlign(encode_type(t))) = alignUp(n, AtMost8(CAlign(t)))
<1> USE DEF AtMost8
<1> DEFINE p == encode_type(t)
<1>1. alignUp(n, 1) = n /\ alignUp(n, 4) = n
  BY DEF alignUp, Fours
<1>2. CASE t.tag \in ScalarTags \union {"void"} /\ t.fields = <<>> /\ p = Scalar(ValType(t.tag))
  <2>1. CASE t.tag = "void"
    <3>1. naturalAlign(p) = 1 /\ CAlign(t) = 4
      BY <1>2, <2>1 DEF ValType, Scalar, naturalAlign, CAlign, Width
    <3> QED
      BY <1>1, <3>1
  <2>2. CASE t.tag # "void"
    <3>1. t = Scalar(t.tag) /\ t.tag \in ScalarTags
      BY <1>2, <2>2 DEF CTypes, Scalar, ScalarTags
    <3>2. Width(t.tag) \in {4, 8, 16}
      BY <3>1, CScalar
    <3>3. naturalAlign(p) = AtMost8(CAlign(t))
      BY <1>2, <3>1, <3>2, ScalarAgrees
    <3> QED
      BY <3>3
  <2> QED
    BY <2>1, <2>2
<1>3. CASE t = Struct(<<>>) /\ p = Scalar("void")
  <2>1. naturalAlign(p) = 1
    BY <1>3 DEF Scalar, naturalAlign
  <2>2. t.tag = "struct" /\ DOMAIN t.fields = {}
    BY <1>3 DEF Struct
  <2>3. CAlign(t) = 4
    BY <2>2 DEF CAlign
  <2> QED
    BY <1>1, <2>1, <2>3
<1>4. ASSUME NEW s \in ScalarTags, t = Struct(<<s>>), p = Scalar(ValType(s))
      PROVE  naturalAlign(p) = AtMost8(CAlign(t))
  <2>1. t.tag = "struct" /\ DOMAIN t.fields = {1} /\ t.fields[1] = s
    BY <1>4 DEF Struct
  <2>2. Width(s) \in {4, 8, 16}
    BY CScalar
  <2>3. CAlign(t) = Width(s)
    BY <2>1, <2>2 DEF CAlign
  <2>4. naturalAlign(p) = (IF Width(s) <= 4 THEN 4 ELSE 8)
    BY <1>4, ScalarAgrees
  <2> QED
    BY <2>2, <2>3, <2>4
<1>5. ASSUME NEW f \in Seq(ScalarTags), t = Struct(f), Len(f) > 1,
             p = Struct([i \in 1..Len(f) |-> ValType(f[i])])
      PROVE  naturalAlign(p) = AtMost8(CAlign(t))
  <2> DEFINE k == Len(f)
             Of(tag) == IF tag \in {"i32", "f32"} THEN 4 ELSE 8
             COf(tag) == IF Width(tag) <= 4 THEN 4 ELSE Width(tag)
  <2>1. /\ t.tag = "struct" /\ t.fields = f /\ DOMAIN t.fields = 1..k
        /\ p.tag = "struct" /\ DOMAIN p.fields = 1..k /\ \A i \in 1..k : p.fields[i] = ValType(f[i])
    BY <1>5 DEF Struct
  <2>2. naturalAlign(p) = IF \E i \in 1..k : Of(p.fields[i]) = 8 THEN 8 ELSE 4
    <3> HIDE DEF p
    <3> QED
      BY <2>1 DEF naturalAlign
  <2>3. CAlign(t) = IF \E i \in 1..k : COf(f[i]) = 16 THEN 16
                    ELSE IF \E i \in 1..k : COf(f[i]) = 8 THEN 8 ELSE 4
    BY <2>1 DEF CAlign
  <2>4. \A i \in 1..k : Of(p.fields[i]) = COf(f[i]) /\ COf(f[i]) # 16
    <3> HIDE DEF p
    <3> TAKE i \in 1..k
    <3>1. f[i] \in ScalarTags /\ p.fields[i] = ValType(f[i]) /\ f[i] # "longdouble"
      BY <1>5, <2>1, NoLongDouble
    <3> QED
      BY <3>1 DEF ScalarTags, ValType, Width
  <2> HIDE DEF Of, COf, p
  <2> QED
    BY <2>2, <2>3, <2>4
<1> QED
  BY <1>2, <1>3, <1>4, <1>5, SmallForms

\* Things of the same sizes that align alike are placed alike.
LEMMA PlacedAlike ==
  ASSUME NEW x \in Seq(Extent), NEW y \in Seq(Extent), Len(x) = Len(y),
         \A i \in 1..Len(x) : x[i].size = y[i].size,
         \A i \in 1..Len(x) : \A n \in Fours : alignUp(n, x[i].align) = alignUp(n, y[i].align)
  PROVE  Place(x).at = Place(y).at
<1> DEFINE e == Ends(x)
           f == Ends(y)
           n == Len(x)
           S == {i \in 0..n : e[i] = f[i]}
<1>1. /\ e \in [0..n -> Fours] /\ n \in Nat
      /\ \A i \in 0..n : e[i] = IF i = 0 THEN 0 ELSE alignUp(e[i - 1], x[i].align) + x[i].size
  BY EndsUpto DEF Upto
<1>2. \A i \in 0..n : f[i] = IF i = 0 THEN 0 ELSE alignUp(f[i - 1], y[i].align) + y[i].size
  BY EndsUpto DEF Upto
<1>3. /\ Place(x).at = [i \in 1..n |-> alignUp(e[i - 1], x[i].align)]
      /\ Place(y).at = [i \in 1..n |-> alignUp(f[i - 1], y[i].align)]
  BY DEF Place
<1> HIDE DEF e, f
<1>4. 0 \in S
  BY <1>1, <1>2
<1>5. ASSUME NEW i \in 0..n, i # n, i \in S
      PROVE  i + 1 \in S
  <2>1. i + 1 \in 1..n /\ (i + 1) - 1 = i /\ i + 1 \in 0..n /\ i + 1 # 0
    BY <1>1, <1>5
  <2>2. e[i] = f[i] /\ e[i] \in Fours
    BY <1>1, <1>5
  <2>3. alignUp(e[i], x[i + 1].align) = alignUp(f[i], y[i + 1].align)
    BY <2>1, <2>2
  <2>4. e[i + 1] = f[i + 1]
    BY <1>1, <1>2, <2>1, <2>3
  <2> QED
    BY <2>1, <2>4
<1> HIDE DEF S
<1>6. \A i \in 0..n : i # n /\ i \in S => i + 1 \in S
  BY <1>5
<1>7. \A i \in 0..n : e[i] = f[i]
  <2>1. \A i \in 0..n : i \in S
    <3> HIDE DEF n
    <3> QED
      BY <1>1, <1>4, <1>6, Induction
  <2> QED
    BY <2>1 DEF S
<1>8. \A i \in 1..n : alignUp(e[i - 1], x[i].align) = alignUp(f[i - 1], y[i].align)
  <2> TAKE i \in 1..n
  <2>1. i - 1 \in 0..n
    BY <1>1
  <2>2. e[i - 1] = f[i - 1] /\ e[i - 1] \in Fours
    BY <1>1, <1>7, <2>1
  <2> QED
    BY <2>2
<1> QED
  BY <1>3, <1>8

\* Where the descriptor keeps the sizes and C asks for no more alignment than it gives, the
\* buffer of the variadic arguments is laid out as the callee's va_arg walks it.
LEMMA SameBuffer ==
  ASSUME NEW c \in Cifs, c.varargs, SizesKept(c), AlignKept(c)
  PROVE  Place(CExtents(SubSeq(c.args, c.nfixed + 1, Len(c.args)))).at = VarargsLayout(build_sig(c)).at
<1> DEFINE args == c.args
           ps == build_sig(c).Params
           k == c.nfixed
           m == Len(args) - k
           ts == SubSeq(args, k + 1, Len(args))
           us == SubSeq(ps, k + 1, Len(ps))
           x == CExtents(ts)
           y == Extents(us)
           z == EightAtMost(x)
<1>1. /\ args \in Seq(CTypes) /\ k \in Nat /\ k <= Len(args) /\ Len(args) \in Nat /\ m \in Nat
      /\ ps \in Seq(PTypes) /\ Len(ps) = Len(args)
      /\ \A i \in 1..Len(args) : ps[i] = encode_type(args[i])
  BY CifOK, SigOK
<1>2. VarargsLayout(build_sig(c)).at = Place(y).at
  BY SigOK DEF VarargsLayout
<1>3. \A i \in 1..Len(args) : ByteSize(ps[i]) = CSize(args[i]) /\ CSize(args[i]) <= 16
  BY <1>1, KeptSizes
<1>4. Place(z).at = Place(x).at
  BY DEF AlignKept
<1> HIDE DEF args, ps, k
<1>5. /\ ts \in Seq(CTypes) /\ us \in Seq(PTypes) /\ Len(ts) = m /\ Len(us) = m
      /\ \A j \in 1..m : ts[j] = args[k + j] /\ us[j] = ps[k + j] /\ k + j \in 1..Len(args)
  <2>1. \A i \in (k + 1)..Len(args) : args[i] \in CTypes /\ ps[i] \in PTypes
    BY <1>1
  <2>2. k + 1 \in Int /\ Len(args) \in Int
    BY <1>1
  <2>3. /\ ts \in Seq(CTypes)
        /\ Len(ts) = IF k + 1 <= Len(args) THEN Len(args) - (k + 1) + 1 ELSE 0
        /\ \A i \in 1..Len(args) - (k + 1) + 1 : ts[i] = args[k + 1 + i - 1]
    BY <1>1, <2>1, <2>2, SubSeqProperties
  <2>4. /\ us \in Seq(PTypes)
        /\ Len(us) = IF k + 1 <= Len(args) THEN Len(args) - (k + 1) + 1 ELSE 0
        /\ \A i \in 1..Len(args) - (k + 1) + 1 : us[i] = ps[k + 1 + i - 1]
    <3>1. us = SubSeq(ps, k + 1, Len(args)) /\ \A i \in (k + 1)..Len(args) : ps[i] \in PTypes
      BY <1>1, <2>1
    <3> HIDE DEF us
    <3> QED
      BY <1>1, <2>2, <3>1, SubSeqProperties
  <2> HIDE DEF ts, us
  <2>5. Len(ts) = m /\ Len(us) = m
    BY <1>1, <2>3, <2>4
  <2>6. \A j \in 1..m : ts[j] = args[k + j] /\ us[j] = ps[k + j] /\ k + j \in 1..Len(args)
    <3> TAKE j \in 1..m
    <3>1. k + 1 + j - 1 = k + j /\ k + j \in 1..Len(args) /\ j \in 1..Len(args) - (k + 1) + 1
      BY <1>1
    <3> QED
      BY <3>1, <2>3, <2>4
  <2> QED
    BY <2>3, <2>4, <2>5, <2>6
<1> HIDE DEF ts, us, m
<1>6. /\ x \in Seq(Extent) /\ Len(x) = m
      /\ \A j \in 1..m : x[j] = [align |-> CAlign(ts[j]), size |-> CSize(ts[j])]
  <2>1. \A j \in 1..m : [align |-> CAlign(ts[j]), size |-> CSize(ts[j])] \in Extent
    BY <1>5, CValue DEF Extent, Aligns
  <2>2. x = [j \in 1..m |-> [align |-> CAlign(ts[j]), size |-> CSize(ts[j])]]
    BY <1>5 DEF CExtents
  <2> HIDE DEF x
  <2> QED
    BY <1>1, <2>1, <2>2
<1>7. /\ y \in Seq(Extent) /\ Len(y) = m
      /\ \A j \in 1..m : y[j] = [align |-> naturalAlign(us[j]), size |-> ByteSize(us[j])]
  BY <1>5, ParamExtents
<1> HIDE DEF x, y
<1>8. /\ z \in Seq(Extent) /\ Len(z) = m
      /\ \A j \in 1..m : z[j] = [align |-> AtMost8(CAlign(ts[j])), size |-> CSize(ts[j])]
  <2>1. \A j \in 1..m : [align |-> AtMost8(CAlign(ts[j])), size |-> CSize(ts[j])] \in Extent
    BY <1>5, CValue DEF Extent, Aligns, AtMost8
  <2>2. z = [j \in 1..m |-> [x[j] EXCEPT !.align = IF @ > 8 THEN 8 ELSE @]]
    BY <1>6 DEF EightAtMost
  <2>3. z = [j \in 1..m |-> [align |-> AtMost8(CAlign(ts[j])), size |-> CSize(ts[j])]]
    BY <1>6, <2>2 DEF AtMost8
  <2> HIDE DEF z
  <2> QED
    BY <1>1, <2>1, <2>3
<1> HIDE DEF z
<1>9. \A j \in 1..m : z[j].size = y[j].size
  <2> TAKE j \in 1..m
  <2>1. k + j \in 1..Len(args) /\ ts[j] = args[k + j] /\ us[j] = ps[k + j]
    BY <1>5
  <2>2. ByteSize(us[j]) = CSize(ts[j])
    BY <1>3, <2>1
  <2>3. z[j] = [align |-> AtMost8(CAlign(ts[j])), size |-> CSize(ts[j])]
    BY <1>8
  <2>4. y[j] = [align |-> naturalAlign(us[j]), size |-> ByteSize(us[j])]
    BY <1>7
  <2> QED
    BY <2>2, <2>3, <2>4
<1>10. ASSUME NEW j \in 1..m, NEW n \in Fours
       PROVE  alignUp(n, z[j].align) = alignUp(n, y[j].align)
  <2>1. k + j \in 1..Len(args) /\ ts[j] = args[k + j] /\ us[j] = ps[k + j]
    BY <1>5
  <2>2. ts[j] \in CTypes /\ CSize(ts[j]) <= 16 /\ us[j] = encode_type(ts[j])
    BY <1>1, <1>3, <2>1
  <2>3. alignUp(n, naturalAlign(us[j])) = alignUp(n, AtMost8(CAlign(ts[j])))
    BY <2>2, SameAlign
  <2> QED
    BY <1>7, <1>8, <2>3
<1>11. Place(z).at = Place(y).at
  BY <1>7, <1>8, <1>9, <1>10, PlacedAlike
<1>12. Place(x).at = Place(y).at
  BY <1>4, <1>11
<1> QED
  BY <1>2, <1>12 DEF x, y, ts, us, args, ps, k

-----------------------------------------------------------------------------
(* What stores leave alone and what they deliver.                          *)

\* Two memories are the same from an address up.
Agree(m, after, lo) == \A a \in Addresses : lo <= a => after[a] = m[a]

\* A value above an address from which the memory is the same reads the same.
OnStack(ps, at) == \A i \in 1..Len(ps) : at + ps[i].at + ps[i].size <= StackTop

LEMMA ReadSame ==
  ASSUME NEW m, NEW after, NEW lo \in Nat, Agree(m, after, lo), NEW at \in Fours, lo <= at,
         NEW ps \in Seq([at : Fours, size : Fours]), OnStack(ps, at)
  PROVE  Read(after, at, ps) = Read(m, at, ps)
<1>1. ASSUME NEW i \in 1..Len(ps)
      PROVE  Load(after, at + ps[i].at, ps[i].size) = Load(m, at + ps[i].at, ps[i].size)
  <2> DEFINE p == ps[i].at
             s == ps[i].size
             n == s \div 4
             b == at + p
  <2>1. p \in Fours /\ s \in Fours /\ b + s <= StackTop
    BY PieceOK DEF OnStack
  <2> HIDE DEF p, s
  <2>2. n \in Nat /\ 4 * n = s
    BY <2>1, Quarters
  <2>3. b \in Fours /\ lo <= b
    <3>1. b \in Fours
      BY <2>1, FoursAdd
    <3>2. at \in Nat /\ p \in Nat
      BY <2>1 DEF Fours
    <3> QED
      BY <3>1, <3>2
  <2> HIDE DEF b, n
  <2>4. ASSUME NEW k \in 1..n
        PROVE  after[b + 4 * (k - 1)] = m[b + 4 * (k - 1)]
    <3> DEFINE a == b + 4 * (k - 1)
    <3>1. a \in Fours /\ a \in b..(b + 4 * n - 1)
      BY <2>2, <2>3, WordAddress
    <3> HIDE DEF a
    <3>2. a \in Nat /\ b \in Nat /\ b + 4 * n <= StackTop
      BY <2>1, <2>2, <2>3, <3>1 DEF Fours
    <3>3. lo <= a /\ a < StackTop
      BY <2>2, <2>3, <3>1, <3>2, BoundsAssumption
    <3>4. a \in Addresses
      BY <3>1, <3>3, AddressOK
    <3>5. after[a] = m[a]
      BY <3>3, <3>4 DEF Agree
    <3> QED
      BY <3>5 DEF a
  <2>5. Load(after, b, s) = Load(m, b, s)
    BY <2>4 DEF Load, n
  <2> QED
    BY <2>5 DEF b, p, s
<1> QED
  BY <1>1 DEF Read

\* Stores below an address.
LEMMA StoredBelow ==
  ASSUME NEW m, DOMAIN m = Addresses, NEW stores, NEW lo \in Nat,
         \A s \in DOMAIN stores :
           stores[s].at \in Nat /\ Len(stores[s].words) \in Nat /\ stores[s].at + 4 * Len(stores[s].words) <= lo
  PROVE  Agree(m, StoreAll(m, stores), lo)
<1> SUFFICES ASSUME NEW a \in Addresses, lo <= a
             PROVE  StoreAll(m, stores)[a] = m[a]
  BY DEF Agree
<1>1. a \in Nat
  BY AddressOK DEF Fours
<1>2. ASSUME NEW s \in DOMAIN stores PROVE ~Covers(stores[s], a)
  <2> DEFINE b == stores[s].at
             n == Len(stores[s].words)
  <2>1. b \in Nat /\ n \in Nat /\ b + 4 * n <= lo
    OBVIOUS
  <2>2. Covers(stores[s], a) <=> a \in b..(b + 4 * n - 1)
    BY DEF Covers
  <2> HIDE DEF b, n
  <2> QED
    BY <1>1, <2>1, <2>2
<1> QED
  BY <1>2, StoredOut

\* Memories that agree from an address up: two steps, and a higher address.
LEMMA AgreeTwice ==
  ASSUME NEW m, NEW between, NEW after, NEW lo, Agree(m, between, lo), Agree(between, after, lo)
  PROVE  Agree(m, after, lo)
BY DEF Agree

\* What agrees from an address up agrees from a higher one.
LEMMA AgreeHigher ==
  ASSUME NEW m, NEW after, NEW lo \in Nat, NEW hi \in Nat, lo <= hi, Agree(m, after, lo)
  PROVE  Agree(m, after, hi)
<1> SUFFICES ASSUME NEW a \in Addresses, hi <= a PROVE after[a] = m[a]
  BY DEF Agree
<1>1. a \in Nat
  BY AddressOK DEF Fours
<1>2. lo <= a
  BY <1>1
<1> QED
  BY <1>2 DEF Agree

\* The words of a memory.
Words(m) == {m[a] : a \in Nat}

\* What is loaded is a sequence of words.
LEMMA LoadedWords ==
  ASSUME NEW m, NEW at \in Fours, NEW size \in Fours
  PROVE  Load(m, at, size) \in Seq(Words(m)) /\ 4 * Len(Load(m, at, size)) = size
<1> DEFINE n == size \div 4
<1>1. n \in Nat /\ 4 * n = size
  BY DEF Fours
<1>2. Load(m, at, size) = [k \in 1..n |-> m[at + 4 * (k - 1)]]
  BY DEF Load
<1> HIDE DEF n
<1>3. \A k \in 1..n : m[at + 4 * (k - 1)] \in Words(m)
  <2> TAKE k \in 1..n
  <2>1. at + 4 * (k - 1) \in Nat
    BY <1>1 DEF Fours
  <2> QED
    BY <2>1 DEF Words
<1>4. Load(m, at, size) \in Seq(Words(m)) /\ Len(Load(m, at, size)) = n
  <2> DEFINE w == Words(m)
             v(k) == m[at + 4 * (k - 1)]
  <2>1. Load(m, at, size) = [k \in 1..n |-> v(k)] /\ \A k \in 1..n : v(k) \in w
    BY <1>2, <1>3
  <2> HIDE DEF w, v
  <2>2. Load(m, at, size) \in Seq(w) /\ Len(Load(m, at, size)) = n
    BY <1>1, <2>1
  <2> QED
    BY <2>2 DEF w
<1> QED
  BY <1>1, <1>4

\* Values in pieces, laid one after the other up to an end.
Laid(K, P, at, size, end) ==
  /\ at \in [1..K -> Fours] /\ size \in [1..K -> Fours]
  /\ \A j \in 1..K : GoodPieces(P[j], size[j]) /\ at[j] + size[j] <= end
  /\ \A i, j \in 1..K : i < j => at[i] + size[i] <= at[j]

\* The stores that put the n-th piece of the j-th value, V[j][n], at an address b and on,
\* and others from an address up.
Delivers(stores, N, K, P, at, b, off, V, W, rest) ==
  /\ DOMAIN stores = 1..N /\ \A s \in 1..N : stores[s].at \in Nat
  /\ \A j \in 1..K : \A n \in 1..Len(P[j]) :
       /\ off[j - 1] + n \in 1..N
       /\ stores[off[j - 1] + n] = [at |-> b + at[j] + P[j][n].at, words |-> V[j][n]]
       /\ V[j][n] \in Seq(W) /\ 4 * Len(V[j][n]) = P[j][n].size
  /\ \A s \in 1..N : stores[s].at >= rest \/ \E j \in 1..K : \E n \in 1..Len(P[j]) : s = off[j - 1] + n

\* The pieces of each value are found where it was put.
ReadsBack(after, K, P, at, b, V) ==
  \A j \in 1..K : Read(after, b + at[j], P[j]) = [n \in 1..Len(P[j]) |-> V[j][n]]

\* Pieces of values laid apart are delivered if the other stores are above them all.
LEMMA Delivered ==
  ASSUME NEW m, DOMAIN m = Addresses, NEW W, NEW N \in Nat, NEW stores, NEW K \in Nat, NEW off,
         NEW b \in Fours, NEW end \in Nat, b + end <= StackTop, NEW at, NEW size, NEW P, NEW V,
         Laid(K, P, at, size, end), Delivers(stores, N, K, P, at, b, off, V, W, b + end)
  PROVE  ReadsBack(StoreAll(m, stores), K, P, at, b, V)
<1> DEFINE after == StoreAll(m, stores)
           Ok(j, n) == j \in 1..K /\ n \in 1..Len(P[j])
           Lo(j, n) == at[j] + P[j][n].at
           Sz(j, n) == P[j][n].size
<1>1. ASSUME NEW j \in 1..K, NEW n \in 1..Len(P[j])
      PROVE  /\ P[j][n].at \in Fours /\ Sz(j, n) \in Fours
             /\ at[j] \in Fours /\ size[j] \in Fours
             /\ Lo(j, n) \in Fours /\ P[j][n].at + Sz(j, n) <= size[j] /\ at[j] + size[j] <= end
  <2> USE DEF Laid
  <2> DEFINE ps == P[j]
  <2>1. /\ ps \in Seq([at : Fours, size : Fours])
        /\ ps[n].at + ps[n].size <= size[j] /\ at[j] + size[j] <= end
    BY DEF GoodPieces
  <2> HIDE DEF ps
  <2>2. ps[n].at \in Fours /\ ps[n].size \in Fours
    BY <2>1, PieceOK DEF ps
  <2>3. at[j] \in Fours /\ size[j] \in Fours
    OBVIOUS
  <2>4. at[j] + ps[n].at \in Fours
    BY <2>2, <2>3, FoursAdd
  <2> QED
    BY <2>1, <2>2, <2>3, <2>4 DEF ps
<1>2. ASSUME NEW j \in 1..K, NEW n \in 1..Len(P[j]), NEW i \in 1..K, NEW k \in 1..Len(P[i]),
             ~(i = j /\ k = n)
      PROVE  Lo(j, n) + Sz(j, n) <= Lo(i, k) \/ Lo(i, k) + Sz(i, k) <= Lo(j, n)
  <2> USE DEF Laid
  <2> DEFINE p == P[j][n].at
             s == P[j][n].size
             q == P[i][k].at
             r == P[i][k].size
             x == at[j]
             y == at[i]
             u == size[j]
             v == size[i]
  <2>1. /\ p \in Nat /\ s \in Nat /\ q \in Nat /\ r \in Nat /\ x \in Nat /\ y \in Nat /\ u \in Nat /\ v \in Nat
        /\ p + s <= u /\ q + r <= v
    BY <1>1 DEF Fours
  <2>2. \/ i = j /\ (p + s <= q \/ q + r <= p)
        \/ x + u <= y
        \/ y + v <= x
    <3>1. CASE i = j
      <4>1. k < n \/ n < k
        <5>1. \A g, h \in Int : g < h \/ h < g \/ g = h
          OBVIOUS
        <5>2. k \in Int /\ n \in Int
          OBVIOUS
        <5> QED
          BY <1>2, <3>1, <5>1, <5>2
      <4> QED
        BY <3>1, <4>1 DEF GoodPieces
    <3>2. CASE i < j
      BY <3>2
    <3>3. CASE j < i
      BY <3>3
    <3>4. i = j \/ i < j \/ j < i
      <4>1. \A g, h \in Int : g < h \/ h < g \/ g = h
        OBVIOUS
      <4> QED
        BY <4>1
    <3> QED
      BY <3>1, <3>2, <3>3, <3>4, Zenon
  <2>3. i = j => x = y
    OBVIOUS
  <2>4. Lo(j, n) = x + p /\ Sz(j, n) = s /\ Lo(i, k) = y + q /\ Sz(i, k) = r
    OBVIOUS
  <2> HIDE DEF p, s, q, r, x, y, u, v, Lo, Sz
  <2>5. x + p + s <= y + q \/ y + q + r <= x + p
    BY <2>1, <2>2, <2>3
  <2> QED
    BY <2>4, <2>5
<1>3. ASSUME NEW j \in 1..K, NEW n \in 1..Len(P[j])
      PROVE  Load(after, b + at[j] + P[j][n].at, P[j][n].size) = V[j][n]
  <2>0. PICK i \in 1..N : i = off[j - 1] + n
    BY DEF Delivers
  <2> DEFINE lo == Lo(j, n)
             sz == Sz(j, n)
  <2>1. /\ i \in 1..N /\ stores[i].at = b + at[j] + P[j][n].at /\ stores[i].words = V[j][n]
        /\ V[j][n] \in Seq(W) /\ 4 * Len(V[j][n]) = P[j][n].size
    <3>1. /\ off[j - 1] + n \in 1..N
          /\ stores[off[j - 1] + n] = [at |-> b + at[j] + P[j][n].at, words |-> V[j][n]]
          /\ V[j][n] \in Seq(W) /\ 4 * Len(V[j][n]) = P[j][n].size
      BY DEF Delivers
    <3> QED
      BY <2>0, <3>1
  <2>2. lo \in Fours /\ sz \in Fours /\ lo + sz <= end
    <3> DEFINE p == P[j][n].at
               x == at[j]
               u == size[j]
    <3>1. p \in Nat /\ sz \in Nat /\ x \in Nat /\ u \in Nat /\ lo \in Nat
      BY <1>1 DEF Fours
    <3>2. p + sz <= u /\ x + u <= end /\ lo = x + p
      BY <1>1
    <3>3. lo \in Fours /\ sz \in Fours
      BY <1>1
    <3> HIDE DEF lo, sz, p, x, u
    <3>4. lo + sz <= end
      BY <3>1, <3>2
    <3> QED
      BY <3>3, <3>4
  <2>3. b + at[j] + P[j][n].at = b + lo /\ b + lo \in Fours
    <3>1. P[j][n].at \in Nat /\ at[j] \in Nat /\ b \in Nat
      BY <1>1 DEF Fours
    <3>2. b + lo \in Fours
      BY <2>2, FoursAdd
    <3> QED
      BY <3>1, <3>2, SMTT(30)
  <2>4. /\ stores[i].words \in Seq(W) /\ stores[i].at = b + lo /\ 4 * Len(stores[i].words) = sz
        /\ stores[i].at \in Fours
    BY <2>1, <2>3
  <2>5. stores[i].at + 4 * Len(stores[i].words) <= StackTop
    <3>1. b \in Nat /\ lo \in Nat /\ sz \in Nat
      BY <2>2 DEF Fours
    <3>2. b + lo + sz <= StackTop
      <4> HIDE DEF lo, sz
      <4> QED
        BY <2>2, <3>1, BoundsAssumption
    <3> QED
      BY <2>4, <3>2
  <2>6. ASSUME NEW t \in 1..N, t # i,
               NEW a \in stores[i].at..(stores[i].at + 4 * Len(stores[i].words) - 1)
        PROVE  ~Covers(stores[t], a)
    <3>1. a \in (b + lo)..(b + lo + sz - 1)
      BY <2>4
    <3>2. b \in Nat /\ lo \in Nat /\ sz \in Nat /\ lo + sz <= end
      BY <2>2 DEF Fours
    <3>3. CASE stores[t].at >= b + end
      <4> DEFINE e == stores[t].at
                 w == 4 * Len(stores[t].words)
      <4>1. Covers(stores[t], a) <=> a \in e..(e + w - 1)
        BY DEF Covers
      <4>2. e \in Nat /\ e >= b + end
        BY <3>3 DEF Delivers
      <4>3. ~(a >= e)
        <5> HIDE DEF e, lo, sz
        <5> QED
          BY <3>1, <3>2, <4>2
      <4>4. \A z : a \in e..z => a >= e
        OBVIOUS
      <4> HIDE DEF e, w
      <4> QED
        BY <4>1, <4>3, <4>4
    <3>4. ASSUME NEW g \in 1..K, NEW k \in 1..Len(P[g]), t = off[g - 1] + k
          PROVE  ~Covers(stores[t], a)
      <4> DEFINE l == Lo(g, k)
                 z == Sz(g, k)
      <4>1. ~(g = j /\ k = n)
        BY <2>0, <2>6, <3>4
      <4>2. lo + sz <= l \/ l + z <= lo
        BY <1>2, <4>1
      <4>3. /\ stores[t].at = b + at[g] + P[g][k].at
            /\ 4 * Len(stores[t].words) = z
        <5>1. /\ stores[off[g - 1] + k] = [at |-> b + at[g] + P[g][k].at, words |-> V[g][k]]
              /\ 4 * Len(V[g][k]) = P[g][k].size
          BY DEF Delivers
        <5> QED
          BY <3>4, <5>1
      <4>4. l \in Nat /\ z \in Nat
        BY <1>1 DEF Fours
      <4>5. stores[t].at = b + l
        <5> DEFINE p == P[g][k].at
                   x == at[g]
        <5>1. p \in Nat /\ x \in Nat /\ l = x + p /\ stores[t].at = b + x + p
          BY <1>1, <4>3 DEF Fours
        <5> HIDE DEF p, x, l
        <5> QED
          BY <3>2, <5>1
      <4>6. Covers(stores[t], a) <=> a \in (b + l)..(b + l + z - 1)
        BY <4>3, <4>5 DEF Covers
      <4> HIDE DEF l, z, lo, sz
      <4> QED
        BY <3>1, <3>2, <4>2, <4>4, <4>6
    <3>5. stores[t].at >= b + end \/ \E g \in 1..K : \E k \in 1..Len(P[g]) : t = off[g - 1] + k
      BY DEF Delivers
    <3> QED
      BY <3>3, <3>4, <3>5
  <2>7. Load(after, stores[i].at, 4 * Len(stores[i].words)) = stores[i].words
    <3>0. DOMAIN stores = 1..N
      BY DEF Delivers
    <3>1. i \in DOMAIN stores /\ i \in Int
      BY <2>1, <3>0
    <3>2. \A t \in DOMAIN stores : t # i =>
            \A a \in stores[i].at..(stores[i].at + 4 * Len(stores[i].words) - 1) : ~Covers(stores[t], a)
      BY <2>6, <3>0
    <3>3. /\ stores[i].words \in Seq(W) /\ stores[i].at \in Fours
          /\ stores[i].at + 4 * Len(stores[i].words) <= StackTop
      BY <2>4, <2>5
    <3>4. Load(StoreAll(m, stores), stores[i].at, 4 * Len(stores[i].words)) = stores[i].words
      BY <3>1, <3>2, <3>3, LoadStored
    <3> QED
      BY <3>4
  <2> HIDE DEF after
  <2> QED
    BY <2>1, <2>7
<1> HIDE DEF after
<1>4. ASSUME NEW j \in 1..K
      PROVE  Read(after, b + at[j], P[j]) = [n \in 1..Len(P[j]) |-> V[j][n]]
  <2> DEFINE ps == P[j]
             n == Len(ps)
  <2>1. DOMAIN ps = 1..n
    <3>1. ps \in Seq([at : Fours, size : Fours])
      BY DEF GoodPieces, Laid
    <3> HIDE DEF ps
    <3> QED
      BY <3>1
  <2>2. Read(after, b + at[j], ps) = [k \in 1..n |-> Load(after, b + at[j] + ps[k].at, ps[k].size)]
    BY <2>1 DEF Read
  <2> QED
    BY <1>3, <2>2
<1> QED
  BY <1>4 DEF after, ReadsBack

\* Stores of n pointers, v[i], from p on, after M stores below it.
Pointers(stores, M, n, p, v) ==
  /\ DOMAIN stores = 1..(M + n)
  /\ \A s \in 1..M : /\ stores[s].at \in Nat /\ Len(stores[s].words) \in Nat
                     /\ stores[s].at + 4 * Len(stores[s].words) <= p
  /\ \A i \in 1..n : stores[M + i] = [at |-> p + 4 * (i - 1), words |-> <<v[i]>>]

\* A pointer put in an array after the values is found there.
LEMMA PointerStored ==
  ASSUME NEW m, DOMAIN m = Addresses, NEW M \in Nat, NEW n \in Nat, NEW stores,
         NEW p \in Fours, p + 4 * n <= StackTop, NEW v, Pointers(stores, M, n, p, v)
  PROVE  \A i \in 1..n : StoreAll(m, stores)[p + 4 * (i - 1)] = v[i]
<1> USE DEF Pointers
<1> TAKE i \in 1..n
<1> DEFINE a == p + 4 * (i - 1)
<1>1. a \in Nat /\ p \in Nat /\ a \in Fours /\ a < StackTop
  <2>1. p \in Nat /\ p % 4 = 0
    BY DEF Fours
  <2>2. a \in Nat /\ a % 4 = 0 /\ a < StackTop
    BY <2>1, BoundsAssumption
  <2> QED
    BY <2>1, <2>2 DEF Fours
<1>2. a \in DOMAIN m
  BY <1>1, AddressOK
<1>3. /\ M + i \in 1..(M + n)
      /\ stores[M + i].at = a /\ stores[M + i].words = <<v[i]>> /\ Len(<<v[i]>>) = 1
  <2>1. stores[M + i] = [at |-> p + 4 * (i - 1), words |-> <<v[i]>>]
    OBVIOUS
  <2>2. M + i \in 1..(M + n)
    OBVIOUS
  <2> QED
    BY <2>1, <2>2
<1>4. Covers(stores[M + i], a)
  <2>1. a \in a..(a + 4 * 1 - 1)
    BY <1>1
  <2> HIDE DEF a
  <2> QED
    BY <1>3, <2>1 DEF Covers
<1>5. ASSUME NEW t \in 1..(M + n), t # M + i
      PROVE  ~Covers(stores[t], a)
  <2>1. CASE t \in 1..M
    <3> DEFINE b == stores[t].at
               w == Len(stores[t].words)
    <3>1. b \in Nat /\ w \in Nat /\ b + 4 * w <= p
      BY <2>1
    <3>2. Covers(stores[t], a) <=> a \in b..(b + 4 * w - 1)
      BY DEF Covers
    <3> HIDE DEF b, w
    <3> QED
      BY <1>1, <3>1, <3>2
  <2>2. CASE t \notin 1..M
    <3> DEFINE k == t - M
               e == p + 4 * (k - 1)
    <3>1. k \in 1..n /\ t = M + k /\ k # i
      BY <1>5, <2>2
    <3> HIDE DEF k
    <3>2. stores[t] = [at |-> e, words |-> <<v[k]>>] /\ Len(<<v[k]>>) = 1
      BY <3>1
    <3>3. Covers(stores[t], a) <=> a \in e..(e + 4 * 1 - 1)
      BY <3>2 DEF Covers
    <3> QED
      BY <1>1, <3>1, <3>3
  <2> QED
    BY <2>1, <2>2
<1>6. StoreAll(m, stores)[a] = stores[M + i].words[((a - stores[M + i].at) \div 4) + 1]
  <2>1. M + i \in DOMAIN stores /\ M + i \in Int
    BY <1>3
  <2>2. \A t \in DOMAIN stores : t # M + i => ~Covers(stores[t], a)
    BY <1>5
  <2> HIDE DEF a, Pointers
  <2> QED
    BY <1>2, <1>4, <2>1, <2>2, StoredIn
<1>7. ((a - stores[M + i].at) \div 4) + 1 = 1
  <2>1. stores[M + i].at = a
    BY <1>3
  <2> HIDE DEF a
  <2> QED
    BY <1>1, <2>1
<1> HIDE DEF a
<1>8. StoreAll(m, stores)[a] = <<v[i]>>[1]
  BY <1>3, <1>6, <1>7
<1> QED
  BY <1>8 DEF a

-----------------------------------------------------------------------------
(* Sequences of sequences.                                                *)

SameLengths(ss, tt, n) == \A i \in 1..n : Len(ss[i]) = Len(tt[i])

\* Sequences of the same lengths lie alike in their flat sequences.
LEMMA SameOffsets ==
  ASSUME NEW ss, NEW tt, NEW n \in Nat, NEW off, NEW other, NEW flat, NEW flatter, NEW S, NEW T,
         Flattens(ss, n, off, flat, S), Flattens(tt, n, other, flatter, T),
         SameLengths(ss, tt, n)
  PROVE  \A i \in 0..n : off[i] = other[i]
<1> DEFINE A == {i \in 0..n : off[i] = other[i]}
<1>1. 0 \in A
  BY DEF Flattens
<1>2. ASSUME NEW i \in 0..n, i # n, i \in A
      PROVE  i + 1 \in A
  <2>1. i + 1 \in 1..n /\ (i + 1) - 1 = i /\ i + 1 \in 0..n
    BY <1>2
  <2>2. /\ off[i + 1] = off[(i + 1) - 1] + Len(ss[i + 1])
        /\ other[i + 1] = other[(i + 1) - 1] + Len(tt[i + 1])
    BY <2>1 DEF Flattens
  <2>21. Len(ss[i + 1]) = Len(tt[i + 1])
    BY <2>1 DEF SameLengths
  <2>3. off[i + 1] = other[i + 1]
    BY <1>2, <2>1, <2>2, <2>21
  <2> QED
    BY <2>1, <2>3
<1> HIDE DEF A
<1>3. \A i \in 0..n : i # n /\ i \in A => i + 1 \in A
  BY <1>2
<1>4. \A i \in 0..n : i \in A
  BY <1>1, <1>3, Induction
<1> QED
  BY <1>4 DEF A

\* There is one flat sequence.
LEMMA OneFlat ==
  ASSUME NEW ss, NEW n \in Nat, NEW off, NEW other, NEW flat, NEW flatter, NEW S,
         Flattens(ss, n, off, flat, S), Flattens(ss, n, other, flatter, S)
  PROVE  flat = flatter
<1>1. \A i \in 0..n : off[i] = other[i]
  <2>1. PICK tt : tt = ss
    OBVIOUS
  <2>2. Flattens(tt, n, other, flatter, S) /\ SameLengths(ss, tt, n)
    BY <2>1 DEF SameLengths
  <2> QED
    BY <2>2, SameOffsets
<1>2. PICK N \in Nat : N = off[n]
  BY DEF Flattens
<1>3. flat \in Seq(S) /\ flatter \in Seq(S) /\ Len(flat) = N /\ Len(flatter) = N
  <2>1. flat \in Seq(S) /\ Len(flat) = off[n]
    BY DEF Flattens
  <2>2. flatter \in Seq(S) /\ Len(flatter) = other[n]
    BY DEF Flattens
  <2>3. n \in 0..n
    OBVIOUS
  <2> QED
    BY <1>1, <1>2, <2>1, <2>2, <2>3
<1>4. ASSUME NEW m \in 1..N
      PROVE  flat[m] = flatter[m]
  <2>1. PICK i \in 1..n : \E k \in 1..Len(ss[i]) : m = off[i - 1] + k
    BY <1>2 DEF Flattens
  <2>2. PICK k \in 1..Len(ss[i]) : m = off[i - 1] + k
    BY <2>1
  <2>3. i - 1 \in 0..n
    OBVIOUS
  <2>4. m = other[i - 1] + k
    BY <1>1, <2>2, <2>3
  <2>5. flat[off[i - 1] + k] = ss[i][k] /\ flatter[other[i - 1] + k] = ss[i][k]
    BY DEF Flattens
  <2> QED
    BY <2>2, <2>4, <2>5
<1> QED
  BY <1>3, <1>4

\* A flat sequence splits where its sequences do.
LEMMA FlatSplits ==
  ASSUME NEW S, NEW ss \in Seq(Seq(S)), NEW k \in 0..Len(ss)
  PROVE  FlattenSeq(ss) = FlattenSeq([i \in 1..k |-> ss[i]])
                          \o FlattenSeq([j \in 1..(Len(ss) - k) |-> ss[k + j]])
<1>1. PICK n \in Nat : n = Len(ss)
  OBVIOUS
<1>2. PICK r \in Nat : r = n - k /\ n = k + r
  <2>1. n - k \in Nat /\ n = k + (n - k)
    BY <1>1
  <2> QED
    BY <2>1
<1> DEFINE xs == [i \in 1..k |-> ss[i]]
           ys == [j \in 1..r |-> ss[k + j]]
           x  == FlattenSeq(xs)
           y  == FlattenSeq(ys)
<1>3. xs \in Seq(Seq(S)) /\ ys \in Seq(Seq(S)) /\ Len(xs) = k /\ Len(ys) = r /\ k \in Nat
  <2>1. \A i \in 1..k : ss[i] \in Seq(S)
    BY <1>1
  <2>2. \A j \in 1..r : ss[k + j] \in Seq(S)
    BY <1>1, <1>2
  <2> DEFINE A == Seq(S)
  <2> HIDE DEF A
  <2>3. (\A i \in 1..k : ss[i] \in A) /\ (\A j \in 1..r : ss[k + j] \in A)
    BY <2>1, <2>2 DEF A
  <2>4. xs \in Seq(A) /\ ys \in Seq(A) /\ Len(xs) = k /\ Len(ys) = r
    BY <2>3
  <2> QED
    BY <2>4 DEF A
<1>4. \A i \in 1..k : xs[i] = ss[i]
  OBVIOUS
<1>5. \A j \in 1..r : ys[j] = ss[k + j]
  OBVIOUS
<1>6. \A i \in 1..n : Len(ss[i]) \in Nat
  <2> TAKE i \in 1..n
  <2>1. ss[i] \in Seq(S)
    BY <1>1
  <2> QED
    BY <2>1
<1> HIDE DEF xs, ys, x, y
<1>7. PICK u : Flattens(xs, k, u, x, S)
  BY <1>3, Flat DEF x
<1>8. PICK v : Flattens(ys, r, v, y, S)
  BY <1>3, Flat DEF y
<1>9. PICK w : Flattens(ss, n, w, FlattenSeq(ss), S)
  BY <1>1, Flat
<1>10. PICK flat : flat = x \o y
  OBVIOUS
<1>11. PICK off : off = [i \in 0..n |-> IF i <= k THEN u[i] ELSE u[k] + v[i - k]]
  OBVIOUS
<1>12. PICK a \in Nat : a = u[k] /\ Len(x) = a
  BY <1>7 DEF Flattens
<1>13. PICK b \in Nat : b = v[r] /\ Len(y) = b
  BY <1>8 DEF Flattens
<1>14. /\ \A i \in 0..k : off[i] = u[i]
       /\ \A j \in 1..r : off[k + j] = a + v[j]
       /\ off[k] = a + v[0] /\ off[n] = a + b
  <2>1. \A i \in 0..k : off[i] = u[i]
    BY <1>1, <1>2, <1>11
  <2>2. \A j \in 1..r : off[k + j] = a + v[j]
    <3> TAKE j \in 1..r
    <3>1. k + j \in 0..n /\ ~(k + j <= k) /\ (k + j) - k = j
      BY <1>1, <1>2
    <3> QED
      BY <1>11, <1>12, <3>1
  <2>3. v[0] = 0 /\ off[k] = a
    BY <2>1, <1>3, <1>8, <1>12 DEF Flattens
  <2>4. off[n] = a + b
    <3>1. CASE r = 0
      BY <1>2, <1>13, <2>3, <3>1
    <3>2. CASE r # 0
      <4>1. r \in 1..r
        BY <3>2
      <4> QED
        BY <1>2, <1>13, <2>2, <4>1
    <3> QED
      BY <3>1, <3>2
  <2> QED
    BY <2>1, <2>2, <2>3, <2>4
<1>15. /\ flat \in Seq(S) /\ Len(flat) = a + b
       /\ \A m \in 1..a : flat[m] = x[m]
       /\ \A m \in 1..b : flat[a + m] = y[m]
  <2>1. x \in Seq(S) /\ y \in Seq(S)
    BY <1>7, <1>8 DEF Flattens
  <2>2. /\ flat \in Seq(S) /\ Len(flat) = a + b
        /\ \A m \in 1..(a + b) : flat[m] = IF m <= a THEN x[m] ELSE y[m - a]
    <3>1. /\ x \o y \in Seq(S) /\ Len(x \o y) = Len(x) + Len(y)
          /\ \A m \in 1..Len(x) + Len(y) : (x \o y)[m] = IF m <= Len(x) THEN x[m] ELSE y[m - Len(x)]
      BY <2>1, ConcatProperties
    <3> QED
      BY <1>10, <1>12, <1>13, <3>1
  <2> QED
    BY <2>2
<1>16. Flattens(ss, n, off, flat, S)
  <2>1. off \in [0..n -> Nat] /\ off[0] = 0
    <3>1. \A i \in 0..n : off[i] \in Nat
      <4> TAKE i \in 0..n
      <4>1. CASE i <= k
        <5>1. i \in 0..k /\ u[i] \in Nat
          BY <1>7, <4>1 DEF Flattens
        <5> QED
          BY <1>14, <5>1
      <4>2. CASE ~(i <= k)
        <5>1. i - k \in 1..r /\ k + (i - k) = i /\ v[i - k] \in Nat
          BY <1>2, <1>8, <4>2 DEF Flattens
        <5>2. off[i] = a + v[i - k]
          BY <1>14, <5>1
        <5> QED
          BY <5>1, <5>2
      <4> QED
        BY <4>1, <4>2
    <3>2. off[0] = 0
      BY <1>3, <1>7, <1>14 DEF Flattens
    <3> QED
      BY <1>11, <3>1, <3>2
  <2>2. ASSUME NEW i \in 1..n
        PROVE  /\ off[i] = off[i - 1] + Len(ss[i]) /\ off[i] <= off[n]
               /\ \A m \in 1..Len(ss[i]) : flat[off[i - 1] + m] = ss[i][m]
    <3>1. CASE i <= k
      <4>1. i \in 1..k /\ i - 1 \in 0..k /\ i \in 0..k
        BY <3>1
      <4>2. /\ u[i] = u[i - 1] + Len(ss[i]) /\ u[i] <= a
            /\ u[i] \in Nat /\ u[i - 1] \in Nat
            /\ \A m \in 1..Len(ss[i]) : x[u[i - 1] + m] = ss[i][m]
        <5>1. /\ u \in [0..k -> Nat] /\ u[i] = u[i - 1] + Len(xs[i]) /\ u[i] <= u[k]
              /\ \A m \in 1..Len(xs[i]) : x[u[i - 1] + m] = xs[i][m]
          BY <1>7, <4>1 DEF Flattens
        <5>2. xs[i] = ss[i]
          BY <1>4, <4>1
        <5> QED
          BY <1>12, <4>1, <5>1, <5>2
      <4>3. off[i] = u[i] /\ off[i - 1] = u[i - 1] /\ off[n] = a + b
        BY <1>14, <4>1
      <4>4. off[i] <= off[n]
        BY <4>2, <4>3
      <4>5. \A m \in 1..Len(ss[i]) : flat[off[i - 1] + m] = ss[i][m]
        <5> TAKE m \in 1..Len(ss[i])
        <5>1. u[i - 1] + m \in 1..a
          BY <1>6, <4>2, SMTT(30)
        <5> QED
          BY <1>15, <4>2, <4>3, <5>1
      <4> QED
        BY <4>2, <4>3, <4>4, <4>5
    <3>2. CASE ~(i <= k)
      <4>1. PICK j \in 1..r : i = k + j
        <5>1. i - k \in 1..r /\ i = k + (i - k)
          BY <1>2, <3>2
        <5> QED
          BY <5>1
      <4>2. /\ v[j] = v[j - 1] + Len(ss[i]) /\ v[j] <= b
            /\ v[j] \in Nat /\ v[j - 1] \in Nat
            /\ \A m \in 1..Len(ss[i]) : y[v[j - 1] + m] = ss[i][m]
        <5>1. ys[j] = ss[i]
          BY <1>5, <4>1
        <5>2. /\ v[j] = v[j - 1] + Len(ys[j]) /\ v[j] <= v[r]
              /\ v[j] \in Nat /\ v[j - 1] \in Nat
              /\ \A m \in 1..Len(ys[j]) : y[v[j - 1] + m] = ys[j][m]
          BY <1>8, <4>1 DEF Flattens
        <5> QED
          BY <1>13, <5>1, <5>2
      <4>3. off[i] = a + v[j] /\ off[n] = a + b
        BY <1>14, <4>1
      <4>4. off[i - 1] = a + v[j - 1]
        <5>1. CASE j = 1
          <6>1. i - 1 = k /\ j - 1 = 0
            BY <4>1, <5>1
          <6> QED
            BY <1>14, <6>1
        <5>2. CASE j # 1
          <6>1. j - 1 \in 1..r /\ i - 1 = k + (j - 1)
            BY <4>1, <5>2
          <6> QED
            BY <1>14, <6>1
        <5> QED
          BY <5>1, <5>2
      <4>5. off[i] = off[i - 1] + Len(ss[i]) /\ off[i] <= off[n]
        <5>1. PICK l \in Nat : l = Len(ss[i])
          BY <1>6
        <5>2. PICK q \in Nat : q = v[j - 1]
          BY <4>2
        <5>3. off[i] = a + (q + l) /\ off[n] = a + b /\ off[i - 1] = a + q /\ q + l <= b
          BY <4>2, <4>3, <4>4, <5>1, <5>2
        <5>4. a + (q + l) = a + q + l /\ a + (q + l) <= a + b
          BY <5>3
        <5> QED
          BY <5>1, <5>3, <5>4
      <4>6. \A m \in 1..Len(ss[i]) : flat[off[i - 1] + m] = ss[i][m]
        <5> TAKE m \in 1..Len(ss[i])
        <5>1. v[j - 1] + m \in 1..b /\ off[i - 1] + m = a + (v[j - 1] + m)
          <6>1. PICK l \in Nat : l = Len(ss[i])
            BY <1>6
          <6>2. PICK q \in Nat : q = v[j - 1]
            BY <4>2
          <6>3. off[i - 1] = a + q /\ q + l <= b /\ m \in 1..l
            BY <4>2, <4>4, <6>1, <6>2
          <6>4. q + m \in 1..b /\ off[i - 1] + m = a + (q + m)
            BY <6>3
          <6> QED
            BY <6>2, <6>4
        <5>2. flat[a + (v[j - 1] + m)] = y[v[j - 1] + m]
          BY <1>15, <5>1
        <5> QED
          BY <4>2, <5>1, <5>2
      <4> QED
        BY <4>5, <4>6
    <3> QED
      BY <3>1, <3>2
  <2>3. ASSUME NEW m \in 1..off[n]
        PROVE  \E i \in 1..n : \E l \in 1..Len(ss[i]) : m = off[i - 1] + l
    <3>1. m \in 1..(a + b)
      BY <1>14
    <3>2. CASE m <= a
      <4>1. m \in 1..u[k]
        BY <1>12, <3>1, <3>2
      <4>2. PICK i \in 1..k : \E l \in 1..Len(xs[i]) : m = u[i - 1] + l
        BY <1>7, <4>1 DEF Flattens
      <4>3. i \in 1..n /\ xs[i] = ss[i] /\ off[i - 1] = u[i - 1]
        BY <1>1, <1>2, <1>4, <1>14, <4>2
      <4> QED
        BY <4>2, <4>3
    <3>3. CASE ~(m <= a)
      <4>1. m - a \in 1..v[r]
        BY <1>13, <3>1, <3>3
      <4>2. PICK j \in 1..r : \E l \in 1..Len(ys[j]) : m - a = v[j - 1] + l
        BY <1>8, <4>1 DEF Flattens
      <4>3. PICK l \in 1..Len(ys[j]) : m - a = v[j - 1] + l
        BY <4>2
      <4>4. PICK i \in 1..n : i = k + j
        BY <1>1, <1>2
      <4>5. ys[j] = ss[i] /\ off[i - 1] = a + v[j - 1]
        <5>1. CASE j = 1
          <6>1. i - 1 = k /\ j - 1 = 0
            BY <4>4, <5>1
          <6> QED
            BY <1>5, <1>14, <4>4, <6>1
        <5>2. CASE j # 1
          <6>1. j - 1 \in 1..r /\ i - 1 = k + (j - 1)
            BY <4>4, <5>2
          <6> QED
            BY <1>5, <1>14, <4>4, <6>1
        <5> QED
          BY <5>1, <5>2
      <4>6. m = off[i - 1] + l
        <5>1. PICK q \in Nat : q = v[j - 1]
          <6>1. j - 1 \in 0..r
            OBVIOUS
          <6>2. v[j - 1] \in Nat
            BY <1>8, <6>1 DEF Flattens
          <6> QED
            BY <6>2
        <5>2. l \in Int /\ m \in Int /\ m - a = q + l /\ off[i - 1] = a + q
          <6>1. ys[j] \in Seq(S)
            BY <1>3
          <6>2. Len(ys[j]) \in Nat
            BY <6>1
          <6> QED
            BY <3>1, <4>3, <4>5, <5>1, <6>2
        <5> QED
          BY <5>2
      <4> QED
        BY <4>3, <4>5, <4>6
    <3> QED
      BY <3>2, <3>3
  <2> QED
    BY <1>14, <1>15, <2>1, <2>2, <2>3 DEF Flattens
<1>17. FlattenSeq(ss) = flat
  BY <1>9, <1>16, OneFlat
<1> QED
  BY <1>1, <1>2, <1>10, <1>17 DEF x, y, xs, ys

\* A sequence is in another, after the first n.
Holds(ops, n, flat) == \A i \in 1..Len(flat) : ops[n + i] = flat[i]

\* A sequence with a head and a tail, and what is between them.
Between(all, head, fixed, tail) ==
  /\ SubSeq(all, Len(head) + 1, Len(all) - Len(tail)) = fixed
  /\ Len(tail) = 1 => all[Len(all)] = tail[1]
  /\ Holds(all, Len(head), fixed)

\* The middle of a sequence: what stands between its first and its last.
LEMMA Middle ==
  ASSUME NEW T, NEW head \in Seq(T), NEW fixed \in Seq(T), NEW tail \in Seq(T)
  PROVE  Between(head \o fixed \o tail, head, fixed, tail)
<1>1. PICK h \in Nat : h = Len(head)
  OBVIOUS
<1>2. PICK f \in Nat : f = Len(fixed)
  OBVIOUS
<1>3. PICK t \in Nat : t = Len(tail)
  OBVIOUS
<1>4. PICK front : front = head \o fixed
  OBVIOUS
<1>5. PICK all : all = front \o tail
  OBVIOUS
<1>6. /\ front \in Seq(T) /\ Len(front) = h + f
      /\ \A m \in 1..(h + f) : front[m] = IF m <= h THEN head[m] ELSE fixed[m - h]
  BY <1>1, <1>2, <1>4, ConcatProperties
<1>7. /\ all \in Seq(T) /\ Len(all) = h + f + t
      /\ \A m \in 1..(h + f + t) : all[m] = IF m <= h + f THEN front[m] ELSE tail[m - (h + f)]
  BY <1>3, <1>5, <1>6, ConcatProperties
<1>8. \A n \in 1..f : all[h + n] = fixed[n]
  <2> TAKE n \in 1..f
  <2>1. h + n \in 1..(h + f + t) /\ h + n \in 1..(h + f) /\ h + n <= h + f /\ ~(h + n <= h)
        /\ (h + n) - h = n
    OBVIOUS
  <2> QED
    BY <1>6, <1>7, <2>1
<1>9. t = 1 => all[h + f + t] = tail[1]
  <2> HAVE t = 1
  <2>1. h + f + t \in 1..(h + f + t) /\ ~(h + f + t <= h + f) /\ h + f + t - (h + f) = 1
    OBVIOUS
  <2> QED
    BY <1>7, <2>1
<1>10. SubSeq(all, h + 1, h + f) = fixed
  <2>1. \A i \in (h + 1)..(h + f) : all[i] \in T
    <3> TAKE i \in (h + 1)..(h + f)
    <3>1. i - h \in 1..f /\ h + (i - h) = i
      OBVIOUS
    <3>2. fixed[i - h] \in T
      BY <1>2, <3>1
    <3> QED
      BY <1>8, <3>1, <3>2
  <2>2. PICK sub : sub = SubSeq(all, h + 1, h + f)
    OBVIOUS
  <2>3. h + 1 \in Int /\ h + f \in Int
    OBVIOUS
  <2>4. /\ sub \in Seq(T)
        /\ Len(sub) = IF h + 1 <= h + f THEN h + f - (h + 1) + 1 ELSE 0
        /\ \A i \in 1..h + f - (h + 1) + 1 : sub[i] = all[h + 1 + i - 1]
    BY <2>1, <2>2, <2>3, SubSeqProperties
  <2>5. Len(sub) = f /\ \A i \in 1..f : sub[i] = fixed[i]
    <3>1. Len(sub) = f
      BY <2>4
    <3>2. \A i \in 1..f : sub[i] = fixed[i]
      <4> TAKE i \in 1..f
      <4>1. i \in 1..h + f - (h + 1) + 1 /\ h + 1 + i - 1 = h + i
        OBVIOUS
      <4> QED
        BY <1>8, <2>4, <4>1
    <3> QED
      BY <3>1, <3>2
  <2>6. sub = fixed
    BY <1>2, <2>4, <2>5
  <2> QED
    BY <2>2, <2>6
<1>11. Len(all) - Len(tail) = h + f /\ Len(all) = h + f + t
  BY <1>3, <1>7
<1> QED
  BY <1>1, <1>2, <1>3, <1>4, <1>5, <1>8, <1>9, <1>10, <1>11 DEF Between, Holds

-----------------------------------------------------------------------------
(* What a caller puts in its frame.                                       *)

\* What is numbered from one is a sequence.
LEMMA Numbered ==
  ASSUME NEW T, NEW k \in Nat, NEW x, x = [i \in 1..k |-> x[i]], \A i \in 1..k : x[i] \in T
  PROVE  x \in Seq(T) /\ Len(x) = k
OBVIOUS

\* One sequence after another.
LEMMA Appended ==
  ASSUME NEW n \in Nat, NEW k \in Nat, NEW x, NEW y,
         x = [i \in 1..n |-> x[i]], y = [i \in 1..k |-> y[i]]
  PROVE  /\ DOMAIN (x \o y) = 1..(n + k)
         /\ \A i \in 1..n : (x \o y)[i] = x[i]
         /\ \A i \in 1..k : (x \o y)[n + i] = y[i]
<1> DEFINE T == {x[i] : i \in 1..n} \union {y[i] : i \in 1..k}
<1>1. (\A i \in 1..n : x[i] \in T) /\ (\A i \in 1..k : y[i] \in T)
  OBVIOUS
<1> HIDE DEF T
<1>2. x \in Seq(T) /\ Len(x) = n
  BY <1>1
<1>3. y \in Seq(T) /\ Len(y) = k
  BY <1>1
<1>4. PICK z : z = x \o y
  OBVIOUS
<1>5. /\ z \in Seq(T) /\ Len(z) = n + k
      /\ \A i \in 1..(n + k) : z[i] = IF i <= n THEN x[i] ELSE y[i - n]
  <2>0. x \in Seq(T) /\ y \in Seq(T)
    BY <1>2, <1>3
  <2>1. /\ x \o y \in Seq(T) /\ Len(x \o y) = Len(x) + Len(y)
        /\ \A i \in 1..Len(x) + Len(y) : (x \o y)[i] = IF i <= Len(x) THEN x[i] ELSE y[i - Len(x)]
    BY <2>0, ConcatProperties
  <2> QED
    BY <1>2, <1>3, <1>4, <2>1
<1>6. \A i \in 1..n : z[i] = x[i]
  <2> TAKE i \in 1..n
  <2>1. i \in 1..(n + k) /\ i <= n
    OBVIOUS
  <2> QED
    BY <1>5, <2>1
<1>7. \A i \in 1..k : z[n + i] = y[i]
  <2> TAKE i \in 1..k
  <2>1. n + i \in 1..(n + k) /\ ~(n + i <= n) /\ (n + i) - n = i
    OBVIOUS
  <2> QED
    BY <1>5, <2>1
<1>8. DOMAIN z = 1..(n + k)
  BY <1>5
<1> QED
  BY <1>4, <1>6, <1>7, <1>8

\* A caller's frame holds a pointer to each argument, and nothing above it changes.
LEMMA CallerStored ==
  ASSUME NEW c \in Cifs, NEW m, DOMAIN m = Addresses, NEW base \in Fours, NEW depth,
         base + CallerFrame(c).size <= StackTop
  PROVE  LET f     == CallerFrame(c)
             after == StoreAll(m, CallerStores(c, base, depth))
         IN /\ \A i \in 1..Len(c.args) : after[base + f.avalue + 4 * (i - 1)] = base + f.args[i]
            /\ Agree(m, after, base + f.size)
<1>1. PICK f : f = CallerFrame(c)
  OBVIOUS
<1>2. PICK n \in Nat : n = Len(c.args) /\ DOMAIN c.args = 1..n /\ \A i \in 1..n : c.args[i] \in CTypes
  BY CifOK
<1>3. /\ f.args \in [1..n -> Fours] /\ f.avalue \in Fours /\ f.rvalue \in Fours /\ f.size \in Fours
      /\ \A i \in 1..n : f.args[i] + CSize(c.args[i]) <= f.avalue
      /\ f.avalue + 4 * n <= f.rvalue /\ f.rvalue + 16 <= f.size
  BY <1>1, <1>2, CallerFrameOK
<1>4. PICK values : values = [i \in 1..n |->
                [at |-> base + f.args[i],
                 words |-> [k \in 1..(CSize(c.args[i]) \div 4) |-> Word(depth, i, k)]]]
  OBVIOUS
<1>5. PICK pointers : pointers = [i \in 1..n |->
                [at |-> base + f.avalue + 4 * (i - 1), words |-> <<base + f.args[i]>>]]
  OBVIOUS
<1>6. PICK stores : stores = values \o pointers
  OBVIOUS
<1>7. CallerStores(c, base, depth) = stores
  BY <1>1, <1>2, <1>4, <1>5, <1>6 DEF CallerStores
<1>8. /\ DOMAIN stores = 1..(n + n)
      /\ \A i \in 1..n : stores[i] = values[i]
      /\ \A i \in 1..n : stores[n + i] = pointers[i]
  <2>1. values = [i \in 1..n |-> values[i]] /\ pointers = [i \in 1..n |-> pointers[i]]
    BY <1>4, <1>5
  <2> QED
    BY <1>6, <2>1, Appended
<1>9. PICK p \in Fours : p = base + f.avalue /\ p \in Nat
  <2>1. base + f.avalue \in Fours
    BY <1>3, FoursAdd
  <2> QED
    BY <2>1 DEF Fours
<1>10. p + 4 * n <= StackTop /\ p + 4 * n <= base + f.size /\ base + f.size \in Nat
  <2> DEFINE a == f.avalue
             r == f.rvalue
             s == f.size
  <2>1. a \in Nat /\ r \in Nat /\ s \in Nat /\ base \in Nat /\ p = base + a
        /\ a + 4 * n <= r /\ r + 16 <= s /\ base + s <= StackTop
    BY <1>1, <1>3, <1>9 DEF Fours
  <2> HIDE DEF a, r, s
  <2>2. p + 4 * n <= StackTop /\ p + 4 * n <= base + s /\ base + s \in Nat
    BY <2>1, BoundsAssumption
  <2> QED
    BY <2>2 DEF s
<1>11. ASSUME NEW s \in 1..n
       PROVE  /\ stores[s].at \in Nat /\ Len(stores[s].words) \in Nat
              /\ stores[s].at + 4 * Len(stores[s].words) <= p
  <2>1. PICK size \in Fours : size = CSize(c.args[s])
    BY <1>2, CValue
  <2>2. PICK k \in Nat : k = size \div 4 /\ 4 * k = size
    <3>1. size \div 4 \in Nat /\ 4 * (size \div 4) = size
      BY Quarters
    <3> QED
      BY <3>1
  <2>3. PICK a \in Nat : a = f.args[s] /\ a + size <= f.avalue
    BY <1>3, <2>1 DEF Fours
  <2>4. stores[s].at = base + a
    BY <1>4, <1>8, <2>3
  <2>5. Len(stores[s].words) = k
    <3>1. stores[s].words = [i \in 1..k |-> Word(depth, s, i)]
      <4>1. stores[s] = [at |-> base + f.args[s],
                         words |-> [i \in 1..(CSize(c.args[s]) \div 4) |-> Word(depth, s, i)]]
        BY <1>4, <1>8
      <4> QED
        BY <2>1, <2>2, <4>1
    <3> QED
      BY <3>1
  <2>6. base \in Nat /\ f.avalue \in Nat /\ size \in Nat
    BY <1>3 DEF Fours
  <2>7. PICK v \in Nat : v = f.avalue
    BY <2>6
  <2>8. base + a + 4 * k <= p /\ base + a \in Nat
    BY <1>9, <2>2, <2>3, <2>6, <2>7
  <2> QED
    BY <2>4, <2>5, <2>8
<1>12. \A i \in 1..n : stores[n + i] = [at |-> p + 4 * (i - 1), words |-> <<base + f.args[i]>>]
  BY <1>5, <1>8, <1>9
<1>13. PICK v : v = [i \in 1..n |-> base + f.args[i]]
  OBVIOUS
<1>14. \A i \in 1..n : stores[n + i] = [at |-> p + 4 * (i - 1), words |-> <<v[i]>>]
  BY <1>12, <1>13
<1>15. PICK after : after = StoreAll(m, stores)
  OBVIOUS
<1>16. \A i \in 1..n : after[p + 4 * (i - 1)] = v[i]
  <2>1. Pointers(stores, n, n, p, v)
    BY <1>8, <1>11, <1>14 DEF Pointers
  <2>2. p + 4 * n <= StackTop
    BY <1>10
  <2>3. \A i \in 1..n : StoreAll(m, stores)[p + 4 * (i - 1)] = v[i]
    BY <2>1, <2>2, PointerStored
  <2> QED
    BY <1>15, <2>3
<1>17. ASSUME NEW s \in 1..(n + n)
       PROVE  /\ stores[s].at \in Nat /\ Len(stores[s].words) \in Nat
              /\ stores[s].at + 4 * Len(stores[s].words) <= base + f.size
  <2>1. CASE s \in 1..n
    <3>1. PICK a \in Nat : a = stores[s].at
      BY <1>11, <2>1
    <3>2. PICK l \in Nat : l = Len(stores[s].words)
      BY <1>11, <2>1
    <3>3. PICK top \in Nat : top = base + f.size
      BY <1>10
    <3>4. a + 4 * l <= p /\ p + 4 * n <= top
      BY <1>10, <1>11, <2>1, <3>1, <3>2, <3>3
    <3>5. a + 4 * l <= top
      BY <1>9, <3>4
    <3> QED
      BY <3>1, <3>2, <3>3, <3>5
  <2>2. CASE s \notin 1..n
    <3>1. PICK i \in 1..n : s = n + i
      <4>1. s - n \in 1..n /\ s = n + (s - n)
        BY <2>2
      <4> QED
        BY <4>1
    <3>2. stores[s].at = p + 4 * (i - 1) /\ Len(stores[s].words) = 1
      <4>1. stores[s] = [at |-> p + 4 * (i - 1), words |-> <<v[i]>>] /\ Len(<<v[i]>>) = 1
        BY <1>14, <3>1
      <4> QED
        BY <4>1
    <3>3. PICK top \in Nat : top = base + f.size
      BY <1>10
    <3>4. p + 4 * (i - 1) \in Nat /\ p + 4 * (i - 1) + 4 <= top
      BY <1>9, <1>10, <3>3
    <3> QED
      BY <3>2, <3>3, <3>4
  <2> QED
    BY <2>1, <2>2
<1>18. Agree(m, after, base + f.size)
  <2>1. PICK lo \in Nat : lo = base + f.size
    BY <1>10
  <2>2. \A s \in DOMAIN stores :
          /\ stores[s].at \in Nat /\ Len(stores[s].words) \in Nat
          /\ stores[s].at + 4 * Len(stores[s].words) <= lo
    BY <1>8, <1>17, <2>1
  <2> QED
    BY <1>15, <2>1, <2>2, StoredBelow
<1>19. \A i \in 1..n : after[base + f.avalue + 4 * (i - 1)] = base + f.args[i]
  BY <1>9, <1>13, <1>16
<1> QED
  BY <1>1, <1>2, <1>7, <1>15, <1>18, <1>19

\* Pieces that end below an address, and the other stores that do.
PiecesBelow(K, P, size, at, b, lo) ==
  \A j \in 1..K : GoodPieces(P[j], size[j]) /\ b + at[j] + size[j] <= lo
OthersBelow(stores, N, K, P, off, lo) ==
  \A s \in 1..N : \/ \E j \in 1..K : \E n \in 1..Len(P[j]) : s = off[j - 1] + n
                  \/ Len(stores[s].words) \in Nat /\ stores[s].at + 4 * Len(stores[s].words) <= lo

\* Where delivered pieces end.
LEMMA DeliversBelow ==
  ASSUME NEW m, DOMAIN m = Addresses, NEW N \in Nat, NEW stores, NEW K \in Nat, NEW at, NEW size,
         NEW P, NEW b \in Fours, NEW off, NEW V, NEW W, NEW rest, NEW lo \in Nat,
         Delivers(stores, N, K, P, at, b, off, V, W, rest),
         at \in [1..K -> Fours], size \in [1..K -> Fours],
         PiecesBelow(K, P, size, at, b, lo), OthersBelow(stores, N, K, P, off, lo)
  PROVE  Agree(m, StoreAll(m, stores), lo)
<1>1. ASSUME NEW s \in 1..N
      PROVE  /\ stores[s].at \in Nat /\ Len(stores[s].words) \in Nat
             /\ stores[s].at + 4 * Len(stores[s].words) <= lo
  <2>1. CASE \E j \in 1..K : \E n \in 1..Len(P[j]) : s = off[j - 1] + n
    <3>1. PICK j \in 1..K : \E n \in 1..Len(P[j]) : s = off[j - 1] + n
      BY <2>1
    <3>2. PICK n \in 1..Len(P[j]) : s = off[j - 1] + n
      BY <3>1
    <3>3. PICK ps : ps = P[j] /\ GoodPieces(ps, size[j])
      BY DEF PiecesBelow
    <3>4. /\ ps \in Seq([at : Fours, size : Fours]) /\ n \in 1..Len(ps)
          /\ ps[n].at + ps[n].size <= size[j]
      BY <3>2, <3>3 DEF GoodPieces
    <3>5. PICK q \in Nat : q = ps[n].at
      BY <3>4, PieceOK DEF Fours
    <3>6. PICK z \in Nat : z = ps[n].size
      BY <3>4, PieceOK DEF Fours
    <3>7. PICK a \in Nat : a = at[j]
      BY DEF Fours
    <3>8. PICK t \in Nat : t = size[j]
      BY DEF Fours
    <3>9. PICK u : u = V[j][n]
      OBVIOUS
    <3>10. /\ stores[off[j - 1] + n] = [at |-> b + at[j] + P[j][n].at, words |-> V[j][n]]
           /\ V[j][n] \in Seq(W) /\ 4 * Len(V[j][n]) = P[j][n].size
      BY DEF Delivers
    <3>11. stores[s].at = b + a + q /\ stores[s].words = u /\ u \in Seq(W) /\ 4 * Len(u) = z
      BY <3>2, <3>3, <3>5, <3>6, <3>7, <3>9, <3>10
    <3>12. b \in Nat /\ q + z <= t /\ b + a + t <= lo
      BY <3>4, <3>5, <3>6, <3>7, <3>8 DEF Fours, PiecesBelow
    <3>120. u \in Seq(W)
      BY <3>9, <3>10
    <3>13. PICK l \in Nat : l = Len(u)
      BY <3>120
    <3>14. 4 * l = z
      BY <3>11, <3>13
    <3>15. b + a + q \in Nat /\ b + a + q + 4 * l <= lo
      BY <3>12, <3>14
    <3> QED
      BY <3>11, <3>13, <3>15
  <2>2. CASE Len(stores[s].words) \in Nat /\ stores[s].at + 4 * Len(stores[s].words) <= lo
    BY <2>2 DEF Delivers
  <2> QED
    BY <2>1, <2>2 DEF OthersBelow
<1>2. DOMAIN stores = 1..N
  BY DEF Delivers
<1> QED
  BY <1>1, <1>2, StoredBelow

-----------------------------------------------------------------------------
(* What the trampolines read and store.                                   *)

\* What is read of a value: the words of its pieces.
LEMMA ReadWords ==
  ASSUME NEW m, NEW a \in Fours, NEW ps \in Seq([at : Fours, size : Fours])
  PROVE  /\ Read(m, a, ps) \in Seq(Seq(Words(m))) /\ Len(Read(m, a, ps)) = Len(ps)
         /\ Read(m, a, ps) = [n \in 1..Len(ps) |-> Read(m, a, ps)[n]]
         /\ \A n \in 1..Len(ps) : /\ Read(m, a, ps)[n] \in Seq(Words(m))
                                  /\ 4 * Len(Read(m, a, ps)[n]) = ps[n].size
<1>1. PICK k \in Nat : k = Len(ps) /\ DOMAIN ps = 1..k
  OBVIOUS
<1>2. PICK r : r = Read(m, a, ps)
  OBVIOUS
<1>3. r = [n \in 1..k |-> Load(m, a + ps[n].at, ps[n].size)]
  BY <1>1, <1>2 DEF Read
<1>4. ASSUME NEW n \in 1..k
      PROVE  r[n] \in Seq(Words(m)) /\ 4 * Len(r[n]) = ps[n].size
  <2>1. PICK q \in Fours : q = ps[n].at
    BY <1>1, PieceOK
  <2>2. PICK z \in Fours : z = ps[n].size
    BY <1>1, PieceOK
  <2>3. PICK b \in Fours : b = a + q
    BY FoursAdd
  <2>4. r[n] = Load(m, b, z)
    BY <1>3, <2>1, <2>2, <2>3
  <2>5. Load(m, b, z) \in Seq(Words(m)) /\ 4 * Len(Load(m, b, z)) = z
    BY LoadedWords
  <2> QED
    BY <2>2, <2>4, <2>5
<1>5. r \in Seq(Seq(Words(m))) /\ Len(r) = k
  <2>1. PICK S : S = Seq(Words(m))
    OBVIOUS
  <2>2. \A n \in 1..k : r[n] \in S
    BY <1>4, <2>1
  <2>3. r \in Seq(S) /\ Len(r) = k
    BY <1>3, <2>2
  <2> QED
    BY <2>1, <2>3
<1>6. r = [n \in 1..k |-> r[n]]
  BY <1>3
<1> QED
  BY <1>1, <1>2, <1>4, <1>5, <1>6

\* Every store puts a piece.
Everything(N, K, P, off) ==
  \A s \in 1..N : \E j \in 1..K : \E n \in 1..Len(P[j]) : s = off[j - 1] + n

\* The stores of the pieces of each value.
PieceStores(ss, K, P, at, b, V, W) ==
  /\ ss \in Seq(Seq([at : Nat, words : Seq(W)])) /\ Len(ss) = K
  /\ \A j \in 1..K :
       /\ Len(ss[j]) = Len(P[j])
       /\ \A n \in 1..Len(P[j]) :
            /\ ss[j][n] = [at |-> b + at[j] + P[j][n].at, words |-> V[j][n]]
            /\ V[j][n] \in Seq(W) /\ 4 * Len(V[j][n]) = P[j][n].size

\* Stores piece by piece, one value after the other, deliver.
LEMMA FlatDelivers ==
  ASSUME NEW K \in Nat, NEW ss, NEW P, NEW at, NEW b, NEW V, NEW W, NEW rest,
         PieceStores(ss, K, P, at, b, V, W)
  PROVE  \E N \in Nat : \E off : /\ Delivers(FlattenSeq(ss), N, K, P, at, b, off, V, W, rest)
                                 /\ Everything(N, K, P, off)
<1>1. PICK S : S = [at : Nat, words : Seq(W)]
  OBVIOUS
<1>2. /\ ss \in Seq(Seq(S)) /\ Len(ss) = K
      /\ \A j \in 1..K : Len(ss[j]) = Len(P[j])
  BY <1>1 DEF PieceStores
<1>3. PICK off : Flattens(ss, K, off, FlattenSeq(ss), S)
  BY <1>2, Flat
<1>4. PICK flat : flat = FlattenSeq(ss)
  OBVIOUS
<1>5. PICK N \in Nat : N = off[K]
  BY <1>3 DEF Flattens
<1>6. flat \in Seq(S) /\ Len(flat) = N
  BY <1>3, <1>4, <1>5 DEF Flattens
<1>7. DOMAIN flat = 1..N /\ \A s \in 1..N : flat[s].at \in Nat
  <2>1. \A s \in 1..N : flat[s] \in S
    BY <1>6
  <2>2. DOMAIN flat = 1..N
    BY <1>6
  <2> QED
    BY <1>1, <2>1, <2>2
<1>8. ASSUME NEW j \in 1..K, NEW n \in 1..Len(P[j])
      PROVE  /\ off[j - 1] + n \in 1..N
             /\ flat[off[j - 1] + n] = [at |-> b + at[j] + P[j][n].at, words |-> V[j][n]]
             /\ V[j][n] \in Seq(W) /\ 4 * Len(V[j][n]) = P[j][n].size
  <2>1. /\ ss[j][n] = [at |-> b + at[j] + P[j][n].at, words |-> V[j][n]]
        /\ V[j][n] \in Seq(W) /\ 4 * Len(V[j][n]) = P[j][n].size
    BY DEF PieceStores
  <2>2. n \in 1..Len(ss[j]) /\ Len(ss[j]) \in Nat
    BY <1>2
  <2>3. flat[off[j - 1] + n] = ss[j][n]
    BY <1>3, <1>4, <2>2 DEF Flattens
  <2>4. j - 1 \in 0..K
    OBVIOUS
  <2>5. PICK o \in Nat : o = off[j - 1]
    BY <1>3, <2>4 DEF Flattens
  <2>6. o + Len(ss[j]) <= N
    BY <1>3, <1>5, <2>5 DEF Flattens
  <2>7. o + n \in 1..N
    BY <2>2, <2>6
  <2> QED
    BY <2>1, <2>3, <2>5, <2>7
<1>9. Everything(N, K, P, off)
  <2> SUFFICES ASSUME NEW s \in 1..N
               PROVE  \E j \in 1..K : \E n \in 1..Len(P[j]) : s = off[j - 1] + n
    BY DEF Everything
  <2>1. \E j \in 1..K : \E n \in 1..Len(ss[j]) : s = off[j - 1] + n
    BY <1>3, <1>5 DEF Flattens
  <2> QED
    BY <1>2, <2>1
<1>10. Delivers(flat, N, K, P, at, b, off, V, W, rest)
  BY <1>7, <1>8, <1>9 DEF Delivers, Everything
<1> QED
  BY <1>4, <1>9, <1>10

\* The array of pointers is in place.
PointedAt(m, avalue, A, n) == \A i \in 1..n : m[avalue + 4 * (i - 1)] = A[i]

\* What appendVarargsPack stores.
LEMMA PackDelivers ==
  ASSUME NEW c \in Cifs, NEW m, NEW avalue, NEW A \in [1..Len(c.args) -> Fours], NEW buffer \in Fours,
         NEW K \in Nat, K = Len(c.args) - c.nfixed, PointedAt(m, avalue, A, Len(c.args)),
         NEW P, P = [j \in 1..K |-> Pieces(build_sig(c).Params[c.nfixed + j])],
         NEW V, V = [j \in 1..K |-> Read(m, A[c.nfixed + j], P[j])], NEW rest
  PROVE  \E N \in Nat : \E off :
           /\ Delivers(PackStores(m, avalue, build_sig(c), buffer), N, K, P,
                       VarargsLayout(build_sig(c)).at, buffer, off, V, Words(m), rest)
           /\ Everything(N, K, P, off)
<1>1. PICK sig : sig = build_sig(c)
  OBVIOUS
<1>2. PICK at \in [1..K -> Fours] : at = VarargsLayout(sig).at
  BY <1>1, VarargsOK
<1>3. PICK fixed \in Nat : fixed = c.nfixed /\ fixed = sig.NFixedArgs
  BY <1>1, SigOK, CifOK
<1>4. PICK ps : ps = sig.Params
  OBVIOUS
<1>5. \A j \in 1..K : fixed + j \in 1..Len(c.args) /\ ps[fixed + j] \in PTypes
  <2>1. ps \in Seq(PTypes) /\ Len(ps) = Len(c.args) /\ Len(c.args) \in Nat
    BY <1>1, <1>4, SigOK, CifOK
  <2>2. \A j \in 1..K : fixed + j \in 1..Len(c.args)
    BY <1>3, <2>1
  <2> QED
    BY <2>1, <2>2
<1>6. ASSUME NEW j \in 1..K
      PROVE  /\ P[j] = Pieces(ps[fixed + j]) /\ P[j] \in Seq([at : Fours, size : Fours])
             /\ A[fixed + j] \in Fours
             /\ LoadArg(m, avalue, fixed + j, ps[fixed + j]) = V[j]
             /\ Len(P[j]) \in Nat /\ V[j] \in Seq(Seq(Words(m))) /\ Len(V[j]) = Len(P[j])
             /\ \A n \in 1..Len(P[j]) : V[j][n] \in Seq(Words(m)) /\ 4 * Len(V[j][n]) = P[j][n].size
  <2>1. P[j] = Pieces(ps[fixed + j]) /\ V[j] = Read(m, A[fixed + j], P[j])
    BY <1>1, <1>3, <1>4
  <2>2. P[j] \in Seq([at : Fours, size : Fours])
    BY <1>5, <2>1, PPieces
  <2>3. A[fixed + j] \in Fours /\ m[avalue + 4 * (fixed + j - 1)] = A[fixed + j]
    BY <1>5 DEF PointedAt
  <2>4. LoadArg(m, avalue, fixed + j, ps[fixed + j]) = V[j]
    BY <2>1, <2>3 DEF LoadArg
  <2>5. PICK a \in Fours : a = A[fixed + j]
    BY <2>3
  <2>6. PICK q \in Seq([at : Fours, size : Fours]) : q = P[j]
    BY <2>2
  <2>7. PICK r : r = V[j] /\ r = Read(m, a, q)
    BY <2>1, <2>5, <2>6
  <2>8. /\ Len(q) \in Nat /\ r \in Seq(Seq(Words(m))) /\ Len(r) = Len(q)
        /\ \A n \in 1..Len(q) : r[n] \in Seq(Words(m)) /\ 4 * Len(r[n]) = q[n].size
    <3>1. /\ Read(m, a, q) \in Seq(Seq(Words(m))) /\ Len(Read(m, a, q)) = Len(q)
          /\ \A n \in 1..Len(q) : /\ Read(m, a, q)[n] \in Seq(Words(m))
                                  /\ 4 * Len(Read(m, a, q)[n]) = q[n].size
      BY ReadWords
    <3>2. Len(q) \in Nat
      OBVIOUS
    <3> QED
      BY <2>7, <3>1, <3>2, Zenon
  <2> QED
    BY <2>1, <2>2, <2>3, <2>4, <2>6, <2>7, <2>8
<1>7. PICK ss : ss = [j \in 1..K |->
                        [n \in 1..Len(P[j]) |-> [at |-> buffer + at[j] + P[j][n].at, words |-> V[j][n]]]]
  OBVIOUS
<1>8. PackStores(m, avalue, sig, buffer) = FlattenSeq(ss)
  <2>1. ASSUME NEW j \in 1..K
        PROVE  LET values == LoadArg(m, avalue, fixed + j, ps[fixed + j])
               IN [n \in DOMAIN values |->
                     [at |-> buffer + at[j] + Pieces(ps[fixed + j])[n].at, words |-> values[n]]] = ss[j]
    <3>1. V[j] \in Seq(Seq(Words(m))) /\ Len(V[j]) = Len(P[j])
      BY <1>6
    <3>2. DOMAIN V[j] = 1..Len(P[j])
      BY <3>1
    <3> QED
      BY <1>6, <1>7, <3>2
  <2>2. DOMAIN at = 1..K
    OBVIOUS
  <2>3. PackStores(m, avalue, sig, buffer)
          = FlattenSeq([j \in DOMAIN at |->
              LET values == LoadArg(m, avalue, fixed + j, ps[fixed + j])
              IN [n \in DOMAIN values |->
                     [at |-> buffer + at[j] + Pieces(ps[fixed + j])[n].at, words |-> values[n]]]])
    BY <1>2, <1>3, <1>4 DEF PackStores
  <2>4. ss = [j \in 1..K |-> ss[j]]
    BY <1>7
  <2> QED
    BY <2>1, <2>2, <2>3, <2>4
<1>9. PieceStores(ss, K, P, at, buffer, V, Words(m))
  <2>1. PICK S : S = [at : Nat, words : Seq(Words(m))]
    OBVIOUS
  <2>2. ASSUME NEW j \in 1..K
        PROVE  /\ ss[j] \in Seq(S) /\ Len(ss[j]) = Len(P[j])
               /\ \A n \in 1..Len(P[j]) :
                    /\ ss[j][n] = [at |-> buffer + at[j] + P[j][n].at, words |-> V[j][n]]
                    /\ V[j][n] \in Seq(Words(m)) /\ 4 * Len(V[j][n]) = P[j][n].size
    <3>1. PICK k \in Nat : k = Len(P[j])
      BY <1>6
    <3>2. ss[j] = [n \in 1..k |-> [at |-> buffer + at[j] + P[j][n].at, words |-> V[j][n]]]
      BY <1>7, <3>1
    <3>3. \A n \in 1..k : V[j][n] \in Seq(Words(m)) /\ 4 * Len(V[j][n]) = P[j][n].size
      BY <1>6, <3>1
    <3>4. ASSUME NEW n \in 1..k PROVE [at |-> buffer + at[j] + P[j][n].at, words |-> V[j][n]] \in S
      <4>1. P[j][n].at \in Nat
        BY <1>6, <3>1, PieceOK DEF Fours
      <4>2. buffer + at[j] + P[j][n].at \in Nat
        BY <4>1, SMTT(30) DEF Fours
      <4> QED
        BY <2>1, <3>3, <4>2
    <3>50. PICK q : q = ss[j]
      OBVIOUS
    <3>51. q = [n \in 1..k |-> q[n]] /\ \A n \in 1..k : q[n] \in S
      BY <3>2, <3>4, <3>50
    <3>52. q \in Seq(S) /\ Len(q) = k
      BY <3>51, Numbered
    <3>5. ss[j] \in Seq(S) /\ Len(ss[j]) = k
      BY <3>50, <3>52
    <3>6. \A n \in 1..k : ss[j][n] = [at |-> buffer + at[j] + P[j][n].at, words |-> V[j][n]]
      BY <3>2
    <3> QED
      BY <3>1, <3>3, <3>5, <3>6
  <2>3. ss \in Seq(Seq(S)) /\ Len(ss) = K
    <3>1. PICK T : T = Seq(S)
      OBVIOUS
    <3>2. \A j \in 1..K : ss[j] \in T
      BY <2>2, <3>1
    <3>3. ss = [j \in 1..K |-> ss[j]]
      BY <1>7
    <3>5. ss \in Seq(T) /\ Len(ss) = K
      BY <3>2, <3>3, Numbered
    <3> QED
      BY <3>1, <3>5
  <2> QED
    BY <2>1, <2>2, <2>3 DEF PieceStores
<1>10. \E N \in Nat : \E off : /\ Delivers(FlattenSeq(ss), N, K, P, at, buffer, off, V, Words(m), rest)
                               /\ Everything(N, K, P, off)
  BY <1>9, FlatDelivers
<1> QED
  BY <1>1, <1>2, <1>8, <1>10

-----------------------------------------------------------------------------
(* What each trampoline delivers.                                         *)

\* How many arguments the prototype names, and the operand the first of them is.
Ordered(c)  == IF c.varargs THEN c.nfixed ELSE Len(c.args)
FirstArg(c) == IF IsAggregate(build_sig(c).Return) THEN 2 ELSE 1

\* Each piece of each of k values is a sequence of words as long as it says.
PieceWords(V, P, k, W) ==
  /\ V \in Seq(Seq(Seq(W))) /\ Len(V) = k
  /\ \A i \in 1..k :
       /\ P[i] \in Seq([at : Fours, size : Fours]) /\ Len(V[i]) = Len(P[i]) /\ Len(P[i]) \in Nat
       /\ \A n \in 1..Len(P[i]) : V[i][n] \in Seq(W) /\ 4 * Len(V[i][n]) = P[i][n].size

\* The pieces of the parameters, and what is read of the first k.
ParamPieces(c) == [i \in 1..Len(c.args) |-> Pieces(build_sig(c).Params[i])]
ArgReads(c, m, A, k) == [i \in 1..k |-> Read(m, A[i], ParamPieces(c)[i])]

\* What LoadArg reads through the pointers are words, piece by piece.
LEMMA Loaded ==
  ASSUME NEW c \in Cifs, NEW m, NEW avalue, NEW A \in [1..Len(c.args) -> Fours],
         PointedAt(m, avalue, A, Len(c.args)), NEW k \in Nat, k <= Len(c.args)
  PROVE  /\ PieceWords(ArgReads(c, m, A, k), ParamPieces(c), k, Words(m))
         /\ \A i \in 1..k : LoadArg(m, avalue, i, build_sig(c).Params[i]) = ArgReads(c, m, A, k)[i]
<1>1. PICK ps : ps = build_sig(c).Params
  OBVIOUS
<1>2. ps \in Seq(PTypes) /\ Len(ps) = Len(c.args) /\ Len(c.args) \in Nat
  BY <1>1, SigOK, CifOK
<1>30. PICK P : P = ParamPieces(c)
  OBVIOUS
<1>31. \A i \in 1..k : P[i] = Pieces(ps[i])
  <2>1. P = [i \in 1..Len(c.args) |-> Pieces(ps[i])]
    BY <1>1, <1>30 DEF ParamPieces
  <2>2. PICK n \in Nat : n = Len(c.args) /\ k <= n
    BY <1>2
  <2> TAKE i \in 1..k
  <2>3. i \in 1..n
    BY <2>2
  <2> QED
    BY <2>1, <2>2, <2>3
<1>3. P = ParamPieces(c) /\ \A i \in 1..k : P[i] = Pieces(ps[i])
  BY <1>30, <1>31
<1>4. PICK V : V = ArgReads(c, m, A, k)
  OBVIOUS
<1>5. V = [i \in 1..k |-> Read(m, A[i], P[i])]
  BY <1>3, <1>4 DEF ArgReads
<1>6. ASSUME NEW i \in 1..k
      PROVE  /\ LoadArg(m, avalue, i, ps[i]) = V[i]
             /\ P[i] \in Seq([at : Fours, size : Fours])
             /\ Len(V[i]) = Len(P[i]) /\ Len(P[i]) \in Nat
             /\ V[i] \in Seq(Seq(Words(m)))
             /\ \A n \in 1..Len(P[i]) : V[i][n] \in Seq(Words(m)) /\ 4 * Len(V[i][n]) = P[i][n].size
  <2>1. i \in 1..Len(c.args) /\ ps[i] \in PTypes
    BY <1>2
  <2>2. PICK q \in Seq([at : Fours, size : Fours]) : q = Pieces(ps[i]) /\ q = P[i]
    BY <1>3, <2>1, PPieces
  <2>3. PICK a \in Fours : a = A[i] /\ m[avalue + 4 * (i - 1)] = a
    BY <2>1 DEF PointedAt
  <2>4. PICK r : r = V[i] /\ r = Read(m, a, q)
    BY <1>5, <2>2, <2>3
  <2>5. LoadArg(m, avalue, i, ps[i]) = r
    BY <2>2, <2>3, <2>4 DEF LoadArg
  <2>6. /\ Read(m, a, q) \in Seq(Seq(Words(m))) /\ Len(Read(m, a, q)) = Len(q)
        /\ \A n \in 1..Len(q) : /\ Read(m, a, q)[n] \in Seq(Words(m))
                                /\ 4 * Len(Read(m, a, q)[n]) = q[n].size
    BY ReadWords
  <2>7. Len(q) \in Nat
    OBVIOUS
  <2> QED
    BY <2>2, <2>4, <2>5, <2>6, <2>7, Zenon
<1>7. V = [i \in 1..k |-> V[i]]
  BY <1>5
<1>8. PICK T : T = Seq(Seq(Words(m)))
  OBVIOUS
<1>9. \A i \in 1..k : V[i] \in T
  BY <1>6, <1>8
<1>10. V \in Seq(T) /\ Len(V) = k
  BY <1>7, <1>9, Numbered
<1>11. PieceWords(V, P, k, Words(m))
  BY <1>6, <1>8, <1>10 DEF PieceWords
<1> QED
  BY <1>1, <1>3, <1>4, <1>6, <1>11

\* The operands a call trampoline pushes.
LEMMA CallOperands ==
  ASSUME NEW c \in Cifs, NEW m, NEW base, NEW avalue, NEW rvalue,
         NEW A \in [1..Len(c.args) -> Fours], PointedAt(m, avalue, A, Len(c.args)),
         NEW V, V = ArgReads(c, m, A, Ordered(c)),
         NEW ops, ops = CallTrampoline(build_sig(c), m, base, avalue, rvalue).operands
  PROVE  /\ SubSeq(ops, FirstArg(c), IF c.varargs THEN Len(ops) - 1 ELSE Len(ops)) = FlattenSeq(V)
         /\ c.varargs => ops[Len(ops)][1] = base - VarargsLayout(build_sig(c)).size
         /\ Holds(ops, FirstArg(c) - 1, FlattenSeq(V))
<1>1. PICK sig : sig = build_sig(c)
  OBVIOUS
<1>2. PICK k \in Nat : k = Ordered(c) /\ k <= Len(c.args)
  BY CifOK DEF Ordered
<1>21. k \in Nat /\ k <= Len(c.args)
  BY <1>2
<1>3. PieceWords(V, ParamPieces(c), k, Words(m)) /\ V \in Seq(Seq(Seq(Words(m))))
      /\ \A i \in 1..k : LoadArg(m, avalue, i, sig.Params[i]) = V[i]
  <2>1. V = ArgReads(c, m, A, k)
    BY <1>2
  <2>2. /\ PieceWords(ArgReads(c, m, A, k), ParamPieces(c), k, Words(m))
        /\ \A i \in 1..k : LoadArg(m, avalue, i, build_sig(c).Params[i]) = ArgReads(c, m, A, k)[i]
    BY <1>21, Loaded
  <2> QED
    BY <1>1, <2>1, <2>2 DEF PieceWords
<1>4. [i \in DOMAIN FixedParams(sig) |-> LoadArg(m, avalue, i, sig.Params[i])] = V
  <2>1. DOMAIN FixedParams(sig) = 1..k
    BY <1>1, <1>2, FixedLoads DEF Ordered
  <2>2. V = [i \in 1..k |-> V[i]]
    BY <1>2 DEF ArgReads
  <2> QED
    BY <1>3, <2>1, <2>2
<1>5. PICK fixed : fixed = FlattenSeq(V)
  OBVIOUS
<1>6. PICK W : W = Seq(Words(m))
  OBVIOUS
<1>7. fixed \in Seq(W)
  BY <1>3, <1>5, <1>6, Flat DEF Flattens
<1>8. PICK buffer : buffer = base - VarargsLayout(sig).size
  OBVIOUS
<1>9. PICK head : head = IF IsAggregate(sig.Return) THEN << <<rvalue>> >> ELSE <<>>
  OBVIOUS
<1>10. PICK tail : tail = IF c.varargs THEN << <<buffer>> >> ELSE <<>>
  OBVIOUS
<1>11. ops = head \o fixed \o tail
  <2>1. sig.Varargs = c.varargs
    BY <1>1, SigOK
  <2> QED
    BY <1>1, <1>4, <1>5, <1>8, <1>9, <1>10, <2>1 DEF CallTrampoline
<1>12. PICK T : T = W \union {<<rvalue>>, <<buffer>>}
  OBVIOUS
<1>13. fixed \in Seq(T)
  BY <1>7, <1>12
<1>14. PICK x : x = <<rvalue>> /\ x \in T
  BY <1>12
<1>15. PICK y : y = <<buffer>> /\ y \in T /\ y[1] = buffer
  <2>1. <<buffer>> \in T
    BY <1>12
  <2>2. <<buffer>>[1] = buffer
    OBVIOUS
  <2> QED
    BY <2>1, <2>2
<1>16. head \in Seq(T) /\ Len(head) = FirstArg(c) - 1 /\ Len(head) <= 1
  BY <1>1, <1>9, <1>14 DEF FirstArg
<1>17. /\ tail \in Seq(T) /\ Len(tail) = (IF c.varargs THEN 1 ELSE 0) /\ Len(tail) <= 1
       /\ c.varargs => tail[1] = y
  BY <1>10, <1>15
<1>18. Between(ops, head, fixed, tail)
  BY <1>11, <1>13, <1>16, <1>17, Middle
<1>19. /\ Len(head) + 1 = FirstArg(c)
       /\ Len(ops) - Len(tail) = IF c.varargs THEN Len(ops) - 1 ELSE Len(ops)
  <2>1. FirstArg(c) \in Nat
    BY DEF FirstArg
  <2>2. Len(ops) \in Nat
    <3>1. head \o fixed \in Seq(T)
      BY <1>13, <1>16, ConcatProperties
    <3>2. ops \in Seq(T)
      BY <1>11, <1>17, <3>1, ConcatProperties
    <3> QED
      BY <3>2
  <2> QED
    BY <1>16, <1>17, <2>1, <2>2
<1> QED
  BY <1>1, <1>5, <1>8, <1>15, <1>16, <1>17, <1>18, <1>19 DEF Between

\* What a closure trampoline stores: the pieces of its operands, then the pointers.
PointsFrom(stores, M, K, frame, avalue, at) ==
  \A i \in 1..K : stores[M + i] = [at |-> frame + avalue + 4 * (i - 1), words |-> <<frame + at[i]>>]

FrameStores(stores, K, P, at, frame, avalue, V, W) ==
  \E M \in Nat : \E off :
    /\ Delivers(stores, M + K, K, P, at, frame, off, V, W, frame + avalue)
    /\ Everything(M, K, P, off)
    /\ PointsFrom(stores, M, K, frame, avalue, at)

\* The closure trampoline's stores deliver its operands.
LEMMA ClosureDelivers ==
  ASSUME NEW c \in Cifs, NEW m, NEW avalue, NEW K \in Nat, K = Len(c.args),
         NEW A \in [1..K -> Fours], PointedAt(m, avalue, A, K), NEW frame \in Fours,
         NEW P, P = ParamPieces(c), NEW V, V = ArgReads(c, m, A, K),
         NEW f, f = ClosureFrame(build_sig(c)),
         NEW ops, Holds(ops, FirstArg(c) - 1, FlattenSeq(V)),
         NEW stores, stores = ClosureStores(build_sig(c), ops, frame)
  PROVE  FrameStores(stores, K, P, f.args, frame, f.avalue, V, Words(m))
<1>1. PICK sig : sig = build_sig(c)
  OBVIOUS
<1>2. PICK ps : ps = sig.Params /\ DOMAIN ps = 1..K
  BY <1>1, SigOK
<1>3. PieceWords(V, P, K, Words(m)) /\ \A i \in 1..K : P[i] = Pieces(ps[i])
  <2>1. K <= Len(c.args)
    OBVIOUS
  <2>2. PieceWords(V, P, K, Words(m))
    BY <2>1, Loaded
  <2> QED
    BY <1>1, <1>2, <2>2 DEF ParamPieces
<1>31. V \in Seq(Seq(Seq(Words(m)))) /\ Len(V) = K
  BY <1>3 DEF PieceWords
<1>32. \A i \in 1..K : P[i] \in Seq([at : Fours, size : Fours]) /\ Len(P[i]) \in Nat
  BY <1>3 DEF PieceWords
<1>33. \A i \in 1..K : Len(V[i]) = Len(P[i])
  BY <1>3 DEF PieceWords
<1>4. /\ f.args \in [1..K -> Fours] /\ f.avalue \in Fours
  BY ClosureFrameOK
<1>5. PICK addr : addr = [i \in 1..K |-> [n \in 1..Len(P[i]) |-> frame + f.args[i] + P[i][n].at]]
  OBVIOUS
<1>6. \A i \in 1..K : addr[i] \in Seq(Nat) /\ Len(addr[i]) = Len(P[i])
  <2> TAKE i \in 1..K
  <2>1. PICK k \in Nat : k = Len(P[i])
    BY <1>32
  <2>2. addr[i] = [n \in 1..k |-> frame + f.args[i] + P[i][n].at]
    BY <1>5, <2>1
  <2>3. \A n \in 1..k : addr[i][n] \in Nat
    <3> TAKE n \in 1..k
    <3>1. PICK q \in Nat : q = P[i][n].at
      BY <1>32, <2>1, PieceOK DEF Fours
    <3>2. PICK a \in Nat : a = f.args[i]
      BY <1>4 DEF Fours
    <3>3. PICK e \in Nat : e = frame
      BY DEF Fours
    <3>4. addr[i][n] = e + a + q
      BY <2>2, <3>1, <3>2, <3>3
    <3> QED
      BY <3>4
  <2>4. addr[i] = [n \in 1..k |-> addr[i][n]]
    BY <2>2
  <2>5. addr[i] \in Seq(Nat) /\ Len(addr[i]) = k
    BY <2>3, <2>4, Numbered
  <2> QED
    BY <2>1, <2>5
<1>7. addr \in Seq(Seq(Nat)) /\ Len(addr) = K
  <2>1. PICK T : T = Seq(Nat)
    OBVIOUS
  <2>2. \A i \in 1..K : addr[i] \in T
    BY <1>6, <2>1
  <2>3. addr = [i \in 1..K |-> addr[i]]
    BY <1>5
  <2>4. addr \in Seq(T) /\ Len(addr) = K
    BY <2>2, <2>3, Numbered
  <2> QED
    BY <2>1, <2>4
<1>8. PICK off : Flattens(addr, K, off, FlattenSeq(addr), Nat)
  BY <1>7, Flat
<1>9. PICK W : W = Seq(Words(m))
  OBVIOUS
<1>10. PICK other : Flattens(V, K, other, FlattenSeq(V), W)
  BY <1>31, <1>9, Flat
<1>11. \A i \in 0..K : off[i] = other[i]
  <2>1. SameLengths(addr, V, K)
    BY <1>33, <1>6 DEF SameLengths
  <2> QED
    BY <1>8, <1>10, <2>1, SameOffsets
<1>12. PICK M \in Nat : M = off[K]
  BY <1>8 DEF Flattens
<1>13. PICK args : args = FlattenSeq(addr)
  OBVIOUS
<1>14. PICK values : values = FlattenSeq(V)
  OBVIOUS
<1>15. /\ args \in Seq(Nat) /\ Len(args) = M /\ DOMAIN args = 1..M /\ \A n \in 1..M : args[n] \in Nat
       /\ Len(values) = M
  <2>1. args \in Seq(Nat) /\ Len(args) = M
    BY <1>8, <1>12, <1>13 DEF Flattens
  <2>2. Len(values) = other[K] /\ K \in 0..K
    BY <1>10, <1>14 DEF Flattens
  <2>3. Len(values) = M
    BY <1>11, <1>12, <2>2
  <2> QED
    BY <2>1, <2>3
<1>16. PICK first : first = FirstArg(c) - 1 /\ first = IF IsAggregate(sig.Return) THEN 1 ELSE 0
  BY <1>1 DEF FirstArg
<1>17. PICK moved : moved = [n \in 1..M |-> [at |-> args[n], words |-> ops[first + n]]]
  OBVIOUS
<1>18. PICK pointers : pointers = [i \in 1..K |-> [at |-> frame + f.avalue + 4 * (i - 1),
                                                  words |-> <<frame + f.args[i]>>]]
  OBVIOUS
<1>19. stores = moved \o pointers
  <2>1. \A i \in 1..K : [n \in DOMAIN Pieces(ps[i]) |-> frame + f.args[i] + Pieces(ps[i])[n].at] = addr[i]
    <3> TAKE i \in 1..K
    <3>1. DOMAIN P[i] = 1..Len(P[i]) /\ Pieces(ps[i]) = P[i]
      <4>1. P[i] \in Seq([at : Fours, size : Fours]) /\ Pieces(ps[i]) = P[i]
        BY <1>3, <1>32
      <4> QED
        BY <4>1
    <3> QED
      BY <1>5, <3>1
  <2>2. addr = [i \in 1..K |-> addr[i]]
    BY <1>5
  <2>3. FlattenSeq([i \in 1..K |->
          [n \in DOMAIN Pieces(ps[i]) |-> frame + f.args[i] + Pieces(ps[i])[n].at]]) = args
    BY <1>13, <2>1, <2>2
  <2> QED
    BY <1>1, <1>2, <1>15, <1>16, <1>17, <1>18, <2>3 DEF ClosureStores
<1>20. /\ DOMAIN stores = 1..(M + K)
       /\ \A n \in 1..M : stores[n] = [at |-> args[n], words |-> ops[first + n]]
       /\ \A i \in 1..K : stores[M + i] = [at |-> frame + f.avalue + 4 * (i - 1),
                                           words |-> <<frame + f.args[i]>>]
  <2>1. moved = [n \in 1..M |-> moved[n]] /\ pointers = [i \in 1..K |-> pointers[i]]
    BY <1>17, <1>18
  <2>2. /\ DOMAIN (moved \o pointers) = 1..(M + K)
        /\ \A n \in 1..M : (moved \o pointers)[n] = moved[n]
        /\ \A i \in 1..K : (moved \o pointers)[M + i] = pointers[i]
    BY <2>1, Appended
  <2> QED
    BY <1>17, <1>18, <1>19, <2>2
<1>201. \A n \in 1..M : stores[n].at = args[n]
  <2> TAKE n \in 1..M
  <2>1. PICK s : s = stores[n]
    OBVIOUS
  <2>2. PICK w : w = ops[first + n]
    OBVIOUS
  <2>3. s = [at |-> args[n], words |-> w]
    BY <1>20, <2>1, <2>2
  <2>4. s.at = args[n]
    BY <2>3
  <2> QED
    BY <2>1, <2>4
<1>202. \A i \in 1..K : stores[M + i].at = frame + f.avalue + 4 * (i - 1)
  <2> TAKE i \in 1..K
  <2>1. PICK s : s = stores[M + i]
    OBVIOUS
  <2>2. PICK a : a = frame + f.avalue + 4 * (i - 1)
    OBVIOUS
  <2>3. s = [at |-> a, words |-> <<frame + f.args[i]>>]
    BY <1>20, <2>1, <2>2
  <2>4. s.at = a
    BY <2>3
  <2> QED
    BY <2>1, <2>2, <2>4
<1>21. ASSUME NEW j \in 1..K, NEW n \in 1..Len(P[j])
       PROVE  /\ off[j - 1] + n \in 1..M
              /\ stores[off[j - 1] + n] = [at |-> frame + f.args[j] + P[j][n].at, words |-> V[j][n]]
              /\ V[j][n] \in Seq(Words(m)) /\ 4 * Len(V[j][n]) = P[j][n].size
  <2>1. n \in 1..Len(addr[j]) /\ n \in 1..Len(V[j]) /\ Len(addr[j]) \in Nat
    BY <1>32, <1>33, <1>6
  <2>2. args[off[j - 1] + n] = addr[j][n] /\ values[other[j - 1] + n] = V[j][n]
    BY <1>8, <1>10, <1>13, <1>14, <2>1 DEF Flattens
  <2>3. j - 1 \in 0..K
    OBVIOUS
  <2>4. PICK o \in Nat : o = off[j - 1] /\ o = other[j - 1]
    BY <1>8, <1>11, <2>3 DEF Flattens
  <2>5. o + Len(addr[j]) <= M
    <3>1. off[j] = off[j - 1] + Len(addr[j]) /\ off[j] <= off[K]
      BY <1>8 DEF Flattens
    <3> QED
      BY <1>12, <2>4, <3>1
  <2>6. o + n \in 1..M
    BY <2>1, <2>5
  <2>7. ops[first + (o + n)] = values[o + n]
    BY <1>14, <1>15, <1>16, <2>6 DEF Holds
  <2>8. stores[o + n] = [at |-> args[o + n], words |-> ops[first + (o + n)]]
    BY <1>20, <2>6
  <2>9. addr[j][n] = frame + f.args[j] + P[j][n].at
    BY <1>5
  <2>10. V[j][n] \in Seq(Words(m)) /\ 4 * Len(V[j][n]) = P[j][n].size
    BY <1>3 DEF PieceWords
  <2> QED
    BY <2>2, <2>4, <2>6, <2>7, <2>8, <2>9, <2>10
<1>22. Everything(M, K, P, off)
  <2> SUFFICES ASSUME NEW s \in 1..M
               PROVE  \E j \in 1..K : \E n \in 1..Len(P[j]) : s = off[j - 1] + n
    BY DEF Everything
  <2>1. \E j \in 1..K : \E n \in 1..Len(addr[j]) : s = off[j - 1] + n
    BY <1>8, <1>12 DEF Flattens
  <2> QED
    BY <1>6, <2>1
<1>23. ASSUME NEW s \in 1..(M + K)
       PROVE  /\ stores[s].at \in Nat
              /\ \/ stores[s].at >= frame + f.avalue
                 \/ \E j \in 1..K : \E n \in 1..Len(P[j]) : s = off[j - 1] + n
  <2>1. CASE s \in 1..M
    <3>1. stores[s].at = args[s]
      BY <1>201, <2>1
    <3> QED
      BY <1>15, <1>22, <2>1, <3>1 DEF Everything
  <2>2. CASE s \notin 1..M
    <3>1. PICK i \in 1..K : s = M + i
      <4>1. s - M \in 1..K /\ s = M + (s - M)
        BY <2>2
      <4> QED
        BY <4>1
    <3>2. stores[s].at = frame + f.avalue + 4 * (i - 1)
      BY <1>202, <3>1
    <3>3. PICK a \in Nat : a = f.avalue
      BY <1>4 DEF Fours
    <3>4. frame \in Nat
      BY DEF Fours
    <3>5. frame + a + 4 * (i - 1) \in Nat /\ frame + a + 4 * (i - 1) >= frame + a
      BY <3>4
    <3> QED
      BY <3>2, <3>3, <3>5
  <2> QED
    BY <2>1, <2>2
<1>24. Delivers(stores, M + K, K, P, f.args, frame, off, V, Words(m), frame + f.avalue)
  <2>1. \A s \in 1..M : s \in 1..(M + K)
    OBVIOUS
  <2>2. DOMAIN stores = 1..(M + K)
    BY <1>20
  <2>3. \A s \in 1..(M + K) :
          /\ stores[s].at \in Nat
          /\ \/ stores[s].at >= frame + f.avalue
             \/ \E j \in 1..K : \E n \in 1..Len(P[j]) : s = off[j - 1] + n
    BY <1>23
  <2>4. \A j \in 1..K : \A n \in 1..Len(P[j]) :
          /\ off[j - 1] + n \in 1..(M + K)
          /\ stores[off[j - 1] + n] = [at |-> frame + f.args[j] + P[j][n].at, words |-> V[j][n]]
          /\ V[j][n] \in Seq(Words(m)) /\ 4 * Len(V[j][n]) = P[j][n].size
    BY <1>21, <2>1
  <2> QED
    BY <2>2, <2>3, <2>4, Zenon DEF Delivers
<1>25. PointsFrom(stores, M, K, frame, f.avalue, f.args)
  BY <1>20 DEF PointsFrom
<1> QED
  BY <1>22, <1>24, <1>25 DEF FrameStores

-----------------------------------------------------------------------------
(* What a target has, and what it takes to keep it.                       *)

\* What the i-th argument of a call holds in its caller's frame.
Passed(m, call, i) == Read(m, call.base + CallerFrame(call.cif).args[i], CPieces(call.cif.args[i]))
PassedUpTo(m, call, k) == [i \in 1..k |-> Passed(m, call, i)]

\* The arguments the prototype names are operands, the others are in the buffer, and a
\* closure's function finds all of them through the pointers in its frame.
InOperands(m, call) ==
  SubSeq(call.operands, FirstArg(call.cif),
         IF call.cif.varargs THEN Len(call.operands) - 1 ELSE Len(call.operands))
    = FlattenSeq(PassedUpTo(m, call, Ordered(call.cif)))

Buffered(m, call, j) ==
  Read(m, call.saved + VarargsLayout(build_sig(call.cif)).at[j], CPieces(call.cif.args[call.cif.nfixed + j]))
    = Passed(m, call, call.cif.nfixed + j)

InBuffer(m, call) ==
  /\ call.operands[Len(call.operands)][1] = call.saved
  /\ call.saved + VarargsLayout(build_sig(call.cif)).size = call.base
  /\ \A j \in 1..(Len(call.cif.args) - call.cif.nfixed) : Buffered(m, call, j)

Framed(m, call, i) ==
  LET at == Entered(call) + ClosureFrame(build_sig(call.cif)).args[i]
  IN m[call.funAvalue + 4 * (i - 1)] = at /\ Read(m, at, CPieces(call.cif.args[i])) = Passed(m, call, i)

InFrame(m, call) ==
  /\ call.funAvalue = Entered(call) + ClosureFrame(build_sig(call.cif)).avalue
  /\ \A i \in 1..Len(call.cif.args) : Framed(m, call, i)

HasArgs(m, call) ==
  IF call.target # "c" THEN InFrame(m, call)
  ELSE InOperands(m, call) /\ (call.cif.varargs => InBuffer(m, call))

\* The calls whose arguments stay what was sent; TargetsGetArguments is about those of
\* them that are also AlignKept.
Good(call) ==
  SizesKept(call.cif) \/ (call.target = "c" /\ ~call.cif.varargs /\ ~ByPointer(call.cif))

ArgsStay ==
  \A d \in 1..Len(calls) : calls[d].state = "running" /\ Good(calls[d]) => HasArgs(mem, calls[d])

-----------------------------------------------------------------------------
\* What is read of a value on the stack.
LEMMA ReadKept ==
  ASSUME NEW m, NEW after, NEW lo \in Nat, Agree(m, after, lo), NEW at \in Fours, lo <= at,
         NEW size \in Nat, NEW ps, GoodPieces(ps, size), at + size <= StackTop
  PROVE  Read(after, at, ps) = Read(m, at, ps)
<1>1. ps \in Seq([at : Fours, size : Fours]) /\ \A i \in 1..Len(ps) : ps[i].at + ps[i].size <= size
  BY DEF GoodPieces
<1>2. \A i \in 1..Len(ps) : at + ps[i].at + ps[i].size <= StackTop
  <2> TAKE i \in 1..Len(ps)
  <2>1. PICK p \in Nat : p = ps[i].at
    BY <1>1, PieceOK DEF Fours
  <2>2. PICK s \in Nat : s = ps[i].size
    BY <1>1, PieceOK DEF Fours
  <2>3. p + s <= size /\ at \in Nat
    BY <1>1, <2>1, <2>2 DEF Fours
  <2>4. at + p + s <= StackTop
    BY <2>3, BoundsAssumption
  <2> QED
    BY <2>1, <2>2, <2>4
<1>3. OnStack(ps, at)
  BY <1>2 DEF OnStack
<1> QED
  BY <1>1, <1>3, ReadSame, ZenonT(30)

\* Where the arguments of a call are in its caller's frame.
LEMMA PassedFits ==
  ASSUME NEW call, CallOK(call), NEW i \in 1..Len(call.cif.args)
  PROVE  /\ call.base + CallerFrame(call.cif).args[i] \in Fours
         /\ call.base <= call.base + CallerFrame(call.cif).args[i]
         /\ call.cif.args[i] \in CTypes /\ CSize(call.cif.args[i]) \in Nat
         /\ GoodPieces(CPieces(call.cif.args[i]), CSize(call.cif.args[i]))
         /\ call.base + CallerFrame(call.cif).args[i] + CSize(call.cif.args[i]) <= StackTop
<1>1. PICK c \in Cifs : c = call.cif
  BY DEF CallOK
<1>2. PICK f : f = CallerFrame(c)
  OBVIOUS
<1>3. PICK b \in Nat : b = call.base /\ b \in Fours
  BY SixteensAreFours DEF CallOK, Sixteens
<1>4. /\ f.args[i] \in Fours /\ f.avalue \in Fours /\ f.rvalue \in Fours /\ f.size \in Fours
      /\ f.args[i] + CSize(c.args[i]) <= f.avalue
      /\ f.avalue + 4 * Len(c.args) <= f.rvalue /\ f.rvalue + 16 <= f.size
  BY <1>1, <1>2, CallerFrameOK
<1>5. c.args[i] \in CTypes /\ Len(c.args) \in Nat
  BY <1>1, CifOK
<1>6. CSize(c.args[i]) \in Fours /\ GoodPieces(CPieces(c.args[i]), CSize(c.args[i]))
  BY <1>5, CValue
<1>7. PICK a \in Nat : a = f.args[i] /\ a \in Fours
  BY <1>4 DEF Fours
<1>8. PICK s \in Nat : s = CSize(c.args[i])
  BY <1>6 DEF Fours
<1>9. PICK v \in Nat : v = f.avalue
  BY <1>4 DEF Fours
<1>10. PICK r \in Nat : r = f.rvalue
  BY <1>4 DEF Fours
<1>11. PICK z \in Nat : z = f.size
  BY <1>4 DEF Fours
<1>12. PICK n \in Nat : n = Len(c.args)
  BY <1>5
<1>13. b + z <= StackTop
  BY <1>1, <1>2, <1>3, <1>11 DEF CallOK, Before
<1>14. a + s <= v /\ v + 4 * n <= r /\ r + 16 <= z
  BY <1>4, <1>7, <1>8, <1>9, <1>10, <1>11, <1>12
<1>15. b + a + s <= StackTop /\ b <= b + a
  BY <1>13, <1>14, BoundsAssumption
<1>16. b + a \in Fours
  BY <1>3, <1>7, FoursAdd
<1> QED
  BY <1>1, <1>2, <1>3, <1>5, <1>6, <1>7, <1>8, <1>15, <1>16

\* The caller's own copies read the same while the memory from its frame up stays.
LEMMA PassedSame ==
  ASSUME NEW call, CallOK(call), NEW m, NEW after, NEW lo \in Nat, lo <= call.base, Agree(m, after, lo)
  PROVE  \A i \in 1..Len(call.cif.args) : Passed(after, call, i) = Passed(m, call, i)
<1> TAKE i \in 1..Len(call.cif.args)
<1>1. PICK at \in Fours : at = call.base + CallerFrame(call.cif).args[i]
  BY PassedFits
<1>2. PICK size \in Nat : size = CSize(call.cif.args[i])
  BY PassedFits
<1>3. PICK ps : ps = CPieces(call.cif.args[i])
  OBVIOUS
<1>4. GoodPieces(ps, size) /\ at + size <= StackTop /\ call.base <= at
  BY <1>1, <1>2, <1>3, PassedFits
<1>5. lo <= at
  <2>1. PICK b \in Nat : b = call.base
    BY DEF CallOK, Sixteens
  <2>2. at \in Nat
    BY DEF Fours
  <2> QED
    BY <1>4, <2>1, <2>2
<1>6. Read(after, at, ps) = Read(m, at, ps)
  BY <1>4, <1>5, ReadKept
<1> QED
  BY <1>1, <1>3, <1>6 DEF Passed

\* What a target has it keeps while the memory from where it was entered stays.
LEMMA KeepsOperands ==
  ASSUME NEW call, CallOK(call), NEW m, NEW after, NEW lo \in Nat, lo <= call.base,
         Agree(m, after, lo), InOperands(m, call)
  PROVE  InOperands(after, call)
<1>1. PICK k \in Nat : k = Ordered(call.cif) /\ k <= Len(call.cif.args)
  BY CifOK DEF Ordered, CallOK
<1>2. \A i \in 1..k : Passed(after, call, i) = Passed(m, call, i)
  <2>1. PICK n \in Nat : n = Len(call.cif.args) /\ k <= n
    BY <1>1, CifOK DEF CallOK
  <2>2. \A i \in 1..n : Passed(after, call, i) = Passed(m, call, i)
    BY <2>1, PassedSame
  <2>3. \A i \in 1..k : i \in 1..n
    BY <2>1
  <2> QED
    BY <2>2, <2>3
<1>3. PassedUpTo(after, call, k) = PassedUpTo(m, call, k)
  BY <1>2 DEF PassedUpTo
<1> QED
  BY <1>1, <1>3 DEF InOperands

\* So does what is in the variadic buffer.
LEMMA KeepsBuffer ==
  ASSUME NEW call, CallOK(call), SizesKept(call.cif), NEW m, NEW after, Agree(m, after, call.saved),
         InBuffer(m, call)
  PROVE  InBuffer(after, call)
<1>1. PICK c \in Cifs : c = call.cif
  BY DEF CallOK
<1>2. PICK s \in Nat : s = call.saved /\ s \in Fours /\ s <= call.base
  BY SixteensAreFours DEF CallOK, Sixteens
<1>3. PICK layout : layout = VarargsLayout(build_sig(c))
  OBVIOUS
<1>4. PICK k \in Nat : k = Len(c.args) - c.nfixed
  BY VarargsOK
<1> SUFFICES ASSUME NEW j \in 1..k
             PROVE  Buffered(after, call, j)
  BY <1>1, <1>4 DEF InBuffer
<1>5. PICK i \in 1..Len(c.args) : i = c.nfixed + j
  <2>1. c.nfixed \in Nat /\ Len(c.args) \in Nat
    BY CifOK
  <2> QED
    BY <1>4, <2>1
<1>6. c.args[i] \in CTypes /\ ByteSize(build_sig(c).Params[i]) = CSize(c.args[i])
  BY <1>1, CifOK, SigOK, KeptSizes
<1>7. PICK size \in Nat : size = CSize(c.args[i]) /\ GoodPieces(CPieces(c.args[i]), size)
  BY <1>6, CValue DEF Fours
<1>8. /\ layout.at[j] \in Fours /\ layout.size \in Fours
      /\ layout.at[j] + ByteSize(build_sig(c).Params[c.nfixed + j]) <= layout.size
  BY <1>3, <1>4, VarargsOK
<1>9. PICK a \in Nat : a = layout.at[j] /\ a \in Fours
  BY <1>8 DEF Fours
<1>10. PICK z \in Nat : z = layout.size
  BY <1>8 DEF Fours
<1>11. s + a \in Fours
  BY <1>2, <1>9, FoursAdd
<1>12. s + a + size <= StackTop /\ s <= s + a
  <2>1. a + size <= z
    BY <1>5, <1>6, <1>7, <1>8, <1>9, <1>10
  <2>2. s + z <= StackTop
    <3>1. PICK b \in Nat : b = call.base
      BY DEF CallOK, Sixteens
    <3>2. PICK f \in Nat : f = CallerFrame(c).size
      BY CallerFrameOK DEF Fours
    <3>3. b + f <= StackTop
      BY <1>1, <3>1, <3>2 DEF CallOK, Before
    <3>4. s + z = b
      BY <1>1, <1>2, <1>3, <1>10, <3>1 DEF InBuffer
    <3> QED
      BY <3>3, <3>4, BoundsAssumption
  <2> QED
    BY <2>1, <2>2, BoundsAssumption
<1>13. PICK ps : ps = CPieces(c.args[i])
  OBVIOUS
<1>14. Read(after, s + a, ps) = Read(m, s + a, ps)
  <2>1. Agree(m, after, s) /\ GoodPieces(ps, size)
    BY <1>2, <1>7, <1>13
  <2>2. PICK at \in Fours : at = s + a
    BY <1>11
  <2>3. s <= at /\ at + size <= StackTop
    BY <1>12, <2>2
  <2>4. Read(after, at, ps) = Read(m, at, ps)
    BY <2>1, <2>3, ReadKept
  <2> QED
    BY <2>2, <2>4
<1>15. Passed(after, call, i) = Passed(m, call, i)
  BY <1>1, <1>2, PassedSame
<1>16. Buffered(m, call, j)
  BY <1>1, <1>4 DEF InBuffer
<1> QED
  BY <1>1, <1>2, <1>3, <1>5, <1>9, <1>13, <1>14, <1>15, <1>16 DEF Buffered

\* So does what a closure's function finds in the frame.
LEMMA KeepsFrame ==
  ASSUME NEW call, CallOK(call), call.target # "c", SizesKept(call.cif), NEW m, NEW after,
         Agree(m, after, Entered(call)), InFrame(m, call)
  PROVE  InFrame(after, call)
<1>1. PICK c \in Cifs : c = call.cif
  BY DEF CallOK
<1>2. PICK e \in Nat : e = Entered(call) /\ e \in Fours
  BY SixteensAreFours DEF CallOK, Sixteens
<1>3. PICK f : f = ClosureFrame(build_sig(c))
  OBVIOUS
<1>4. PICK n \in Nat : n = Len(c.args)
  BY CifOK
<1> SUFFICES ASSUME NEW i \in 1..n
             PROVE  Framed(after, call, i)
  BY <1>1, <1>4 DEF InFrame
<1>5. i \in 1..Len(c.args) /\ c.args[i] \in CTypes /\ ByteSize(build_sig(c).Params[i]) = CSize(c.args[i])
  BY <1>1, <1>4, CifOK, SigOK, KeptSizes
<1>6. PICK size \in Nat : size = CSize(c.args[i]) /\ GoodPieces(CPieces(c.args[i]), size)
  BY <1>5, CValue DEF Fours
<1>7. /\ f.args[i] \in Fours /\ f.avalue \in Fours /\ f.ret \in Fours /\ f.size \in Fours
      /\ f.args[i] + ByteSize(build_sig(c).Params[i]) <= f.avalue
      /\ f.avalue + 4 * Len(c.args) <= f.ret /\ f.ret <= f.size
  BY <1>3, <1>5, ClosureFrameOK
<1>8. PICK a \in Nat : a = f.args[i] /\ a \in Fours
  BY <1>7 DEF Fours
<1>9. PICK v \in Nat : v = f.avalue /\ v \in Fours
  BY <1>7 DEF Fours
<1>10. PICK z \in Nat : z = f.size /\ v + 4 * n <= z
  BY <1>4, <1>7, <1>9 DEF Fours
<1>11. a + size <= v
  BY <1>5, <1>6, <1>7, <1>8, <1>9
<1>12. e + z <= StackTop /\ e <= call.base
  <2>1. PICK b \in Nat : b = call.base
    BY DEF CallOK, Sixteens
  <2>2. PICK s \in Nat : s = call.saved
    BY DEF CallOK, Sixteens
  <2>3. PICK g \in Nat : g = CallerFrame(c).size
    BY CallerFrameOK DEF Fours
  <2>4. b + g <= StackTop /\ s <= b
    BY <1>1, <2>1, <2>2, <2>3 DEF CallOK, Before
  <2>5. e = s - z
    BY <1>1, <1>2, <1>3, <1>10, <2>2 DEF Entered
  <2>6. e + z <= StackTop /\ e <= b
    BY <2>4, <2>5, BoundsAssumption
  <2> QED
    BY <2>1, <2>6
<1>13. PICK ps : ps = CPieces(c.args[i])
  OBVIOUS
<1>14. Read(after, e + a, ps) = Read(m, e + a, ps)
  <2>1. Agree(m, after, e) /\ GoodPieces(ps, size)
    BY <1>2, <1>6, <1>13
  <2>2. PICK at \in Fours : at = e + a
    BY <1>2, <1>8, FoursAdd
  <2>3. e <= at /\ at + size <= StackTop
    BY <1>10, <1>11, <1>12, <2>2, BoundsAssumption
  <2>4. Read(after, at, ps) = Read(m, at, ps)
    BY <2>1, <2>3, ReadKept
  <2> QED
    BY <2>2, <2>4
<1>15. Passed(after, call, i) = Passed(m, call, i)
  BY <1>1, <1>2, <1>5, <1>12, PassedSame
<1>16. after[e + v + 4 * (i - 1)] = m[e + v + 4 * (i - 1)]
  <2>1. PICK p \in Fours : p = e + v /\ p \in Nat
    <3>1. e + v \in Fours
      BY <1>2, <1>9, FoursAdd
    <3> QED
      BY <3>1
  <2>2. p + 4 * (i - 1) \in Fours /\ p + 4 * (i - 1) \in p..(p + 4 * n - 1)
    BY <2>1, WordAddress
  <2>3. PICK w \in Nat : w = p + 4 * (i - 1) /\ w \in Fours
    BY <2>2 DEF Fours
  <2>4. w < StackTop /\ e <= w
    <3>1. p <= w /\ w <= p + 4 * n - 1
      BY <2>2, <2>3
    <3> QED
      BY <1>10, <1>12, <2>1, <3>1, BoundsAssumption
  <2>5. w \in Addresses
    BY <2>3, <2>4, AddressOK
  <2>6. after[w] = m[w]
    BY <1>2, <2>4, <2>5 DEF Agree
  <2> QED
    BY <2>1, <2>3, <2>6
<1>17. Framed(m, call, i)
  BY <1>1, <1>4 DEF InFrame
<1>18. call.funAvalue = e + v
  BY <1>1, <1>2, <1>3, <1>9 DEF InFrame
<1> QED
  BY <1>1, <1>2, <1>3, <1>8, <1>13, <1>14, <1>15, <1>16, <1>17, <1>18 DEF Framed

\* A target keeps its arguments while nothing above its frame changes.
LEMMA KeepsArgs ==
  ASSUME NEW call, CallOK(call), Good(call), NEW m, NEW after, Agree(m, after, Entered(call)),
         HasArgs(m, call)
  PROVE  HasArgs(after, call)
<1>1. CASE call.target # "c"
  <2>1. SizesKept(call.cif)
    BY <1>1 DEF Good
  <2> QED
    BY <1>1, <2>1, KeepsFrame DEF HasArgs
<1>2. CASE call.target = "c"
  <2>1. Agree(m, after, call.saved) /\ call.saved \in Nat /\ call.saved <= call.base
    BY <1>2 DEF Entered, CallOK, Sixteens
  <2>2. InOperands(after, call)
    BY <1>2, <2>1, KeepsOperands DEF HasArgs
  <2>3. ASSUME call.cif.varargs
        PROVE  InBuffer(after, call)
    <3>1. SizesKept(call.cif) /\ InBuffer(m, call)
      BY <1>2, <2>3 DEF Good, HasArgs
    <3> QED
      BY <2>1, <3>1, KeepsBuffer
  <2> QED
    BY <1>2, <2>2, <2>3 DEF HasArgs
<1> QED
  BY <1>1, <1>2

-----------------------------------------------------------------------------
(* What was sent is received.                                             *)

\* What is passed is a sequence of words for each piece.
LEMMA PassedWords ==
  ASSUME NEW call, CallOK(call), NEW m, NEW k \in Nat, k <= Len(call.cif.args)
  PROVE  PassedUpTo(m, call, k) \in Seq(Seq(Seq(Words(m)))) /\ Len(PassedUpTo(m, call, k)) = k
<1>1. PICK n \in Nat : n = Len(call.cif.args) /\ k <= n
  BY CifOK DEF CallOK
<1>2. PICK T : T = Seq(Seq(Words(m)))
  OBVIOUS
<1>3. ASSUME NEW i \in 1..k PROVE Passed(m, call, i) \in T
  <2>1. i \in 1..Len(call.cif.args)
    BY <1>1
  <2>2. PICK at \in Fours : at = call.base + CallerFrame(call.cif).args[i]
    BY <2>1, PassedFits
  <2>3. PICK ps \in Seq([at : Fours, size : Fours]) : ps = CPieces(call.cif.args[i])
    BY <2>1, PassedFits DEF GoodPieces
  <2>4. Read(m, at, ps) \in Seq(Seq(Words(m)))
    BY ReadWords
  <2> QED
    BY <1>2, <2>2, <2>3, <2>4 DEF Passed
<1>4. PICK V : V = PassedUpTo(m, call, k)
  OBVIOUS
<1>5. V = [i \in 1..k |-> V[i]] /\ \A i \in 1..k : V[i] \in T
  BY <1>3, <1>4 DEF PassedUpTo
<1>6. V \in Seq(T) /\ Len(V) = k
  BY <1>5, Numbered
<1> QED
  BY <1>2, <1>4, <1>6

\* All that was sent.
LEMMA SentIs ==
  ASSUME NEW call, CallOK(call), NEW n \in Nat, n = Len(call.cif.args)
  PROVE  Sent(call) = FlattenSeq(PassedUpTo(mem, call, n))
<1>1. DOMAIN call.cif.args = 1..n
  BY CifOK DEF CallOK
<1> QED
  BY <1>1 DEF Sent, PassedUpTo, Passed

\* A closure's function receives it.
LEMMA FrameReceives ==
  ASSUME NEW call, CallOK(call), call.target # "c", InFrame(mem, call)
  PROVE  Received(call) = Sent(call)
<1>1. PICK n \in Nat : n = Len(call.cif.args) /\ DOMAIN call.cif.args = 1..n
  BY CifOK DEF CallOK
<1>2. ASSUME NEW i \in 1..n
      PROVE  Read(mem, mem[call.funAvalue + 4 * (i - 1)], CPieces(call.cif.args[i])) = Passed(mem, call, i)
  <2>1. Framed(mem, call, i)
    BY <1>1 DEF InFrame
  <2> QED
    BY <2>1 DEF Framed
<1>3. [i \in DOMAIN call.cif.args |->
         Read(mem, mem[call.funAvalue + 4 * (i - 1)], CPieces(call.cif.args[i]))]
        = PassedUpTo(mem, call, n)
  BY <1>1, <1>2 DEF PassedUpTo
<1>4. Received(call) = FlattenSeq(PassedUpTo(mem, call, n))
  BY <1>3 DEF Received
<1> QED
  BY <1>1, <1>4, SentIs

\* A C function that is not variadic receives it.
LEMMA OperandsReceive ==
  ASSUME NEW call, CallOK(call), call.target = "c", ~call.cif.varargs, InOperands(mem, call)
  PROVE  Received(call) = Sent(call)
<1>1. PICK n \in Nat : n = Len(call.cif.args)
  BY CifOK DEF CallOK
<1>2. Received(call) = SubSeq(call.operands, FirstArg(call.cif), Len(call.operands))
  BY DEF Received, FirstArg
<1>3. SubSeq(call.operands, FirstArg(call.cif), Len(call.operands)) = FlattenSeq(PassedUpTo(mem, call, n))
  BY <1>1 DEF InOperands, Ordered
<1> QED
  BY <1>1, <1>2, <1>3, SentIs

\* A variadic one receives the first in its operands and the others in the buffer.
LEMMA BufferReceives ==
  ASSUME NEW call, CallOK(call), call.target = "c", call.cif.varargs, SizesKept(call.cif),
         AlignKept(call.cif), InOperands(mem, call), InBuffer(mem, call)
  PROVE  Received(call) = Sent(call)
<1>1. PICK c \in Cifs : c = call.cif
  BY DEF CallOK
<1>2. PICK n \in Nat : n = Len(c.args)
  BY CifOK
<1>3. PICK k \in Nat : k = c.nfixed /\ k <= n
  BY <1>2, CifOK
<1>4. PICK r \in Nat : r = n - k
  BY <1>3
<1>5. PICK all : all = PassedUpTo(mem, call, n)
  OBVIOUS
<1>6. PICK fixed : fixed = PassedUpTo(mem, call, k)
  OBVIOUS
<1>7. PICK rest : rest = [j \in 1..r |-> Passed(mem, call, k + j)]
  OBVIOUS
<1>8. FlattenSeq(all) = FlattenSeq(fixed) \o FlattenSeq(rest)
  <2>1. PICK S : S = Seq(Words(mem))
    OBVIOUS
  <2>2. all \in Seq(Seq(S)) /\ Len(all) = n
    BY <1>1, <1>2, <1>5, <2>1, PassedWords
  <2>3. k \in 0..Len(all)
    BY <1>3, <2>2
  <2>4. FlattenSeq(all) = FlattenSeq([i \in 1..k |-> all[i]])
                          \o FlattenSeq([j \in 1..(Len(all) - k) |-> all[k + j]])
    BY <2>2, <2>3, FlatSplits
  <2>5. [i \in 1..k |-> all[i]] = fixed
    <3>1. \A i \in 1..k : i \in 1..n
      BY <1>3
    <3>2. \A i \in 1..k : all[i] = Passed(mem, call, i)
      BY <1>5, <3>1 DEF PassedUpTo
    <3> QED
      BY <1>6, <3>2 DEF PassedUpTo
  <2>6. [j \in 1..(Len(all) - k) |-> all[k + j]] = rest
    <3>1. \A j \in 1..r : k + j \in 1..n
      BY <1>3, <1>4
    <3>2. \A j \in 1..r : all[k + j] = Passed(mem, call, k + j)
      BY <1>5, <3>1 DEF PassedUpTo
    <3>3. Len(all) - k = r
      BY <1>4, <2>2
    <3> QED
      BY <1>7, <3>2, <3>3
  <2> QED
    BY <2>4, <2>5, <2>6
<1>9. PICK variadic : variadic = SubSeq(c.args, k + 1, n)
  OBVIOUS
<1>10. /\ DOMAIN variadic = 1..r
       /\ \A j \in 1..r : variadic[j] = c.args[k + j]
  <2>1. \A i \in (k + 1)..n : c.args[i] \in CTypes
    <3>1. \A i \in (k + 1)..n : i \in 1..n
      BY <1>3
    <3> QED
      BY <1>2, <3>1, CifOK
  <2>2. k + 1 \in Int /\ n \in Int
    OBVIOUS
  <2>3. /\ variadic \in Seq(CTypes)
        /\ Len(variadic) = IF k + 1 <= n THEN n - (k + 1) + 1 ELSE 0
        /\ \A j \in 1..n - (k + 1) + 1 : variadic[j] = c.args[k + 1 + j - 1]
    BY <1>9, <2>1, <2>2, SubSeqProperties
  <2>4. Len(variadic) = r
    BY <1>3, <1>4, <2>3
  <2>5. \A j \in 1..r : variadic[j] = c.args[k + j]
    <3> TAKE j \in 1..r
    <3>1. k + 1 + j - 1 = k + j /\ j \in 1..n - (k + 1) + 1
      BY <1>3, <1>4
    <3> QED
      BY <2>3, <3>1
  <2> QED
    BY <2>3, <2>4, <2>5
<1>11. PICK at : at = VarargsLayout(build_sig(c)).at
  OBVIOUS
<1>12. Place(CExtents(variadic)).at = at
  BY <1>1, <1>2, <1>3, <1>9, <1>11, SameBuffer
<1>13. PICK ops : ops = call.operands
  OBVIOUS
<1>14. ops[Len(ops)][1] = call.saved
  BY <1>13 DEF InBuffer
<1>15. [j \in DOMAIN variadic |-> Read(mem, ops[Len(ops)][1] + at[j], CPieces(variadic[j]))] = rest
  <2>1. ASSUME NEW j \in 1..r
        PROVE  Read(mem, ops[Len(ops)][1] + at[j], CPieces(variadic[j])) = Passed(mem, call, k + j)
    <3>1. Buffered(mem, call, j)
      BY <1>1, <1>2, <1>3, <1>4 DEF InBuffer
    <3> QED
      BY <1>1, <1>3, <1>10, <1>11, <1>14, <3>1 DEF Buffered
  <2> QED
    BY <1>7, <1>10, <2>1
<1>16. Received(call) = SubSeq(ops, FirstArg(c), Len(ops) - 1)
          \o FlattenSeq([j \in DOMAIN variadic |-> Read(mem, ops[Len(ops)][1] + at[j], CPieces(variadic[j]))])
  BY <1>1, <1>2, <1>3, <1>9, <1>12, <1>13 DEF Received, FirstArg
<1>17. SubSeq(ops, FirstArg(c), Len(ops) - 1) = FlattenSeq(fixed)
  BY <1>1, <1>3, <1>6, <1>13 DEF InOperands, Ordered
<1>18. Received(call) = FlattenSeq(all)
  BY <1>8, <1>15, <1>16, <1>17
<1> QED
  BY <1>1, <1>2, <1>5, <1>18, SentIs

\* What a target has is what was sent to it.
LEMMA ArgsReceived ==
  ASSUME NEW call, CallOK(call), Good(call), AlignKept(call.cif), HasArgs(mem, call)
  PROVE  Received(call) = Sent(call)
<1>1. CASE call.target # "c"
  BY <1>1, FrameReceives DEF HasArgs
<1>2. CASE call.target = "c" /\ ~call.cif.varargs
  BY <1>2, OperandsReceive DEF HasArgs
<1>3. CASE call.target = "c" /\ call.cif.varargs
  BY <1>3, BufferReceives DEF HasArgs, Good
<1> QED
  BY <1>1, <1>2, <1>3

\* The invariant implies the property the runs check.
LEMMA ArgsStayed == CallsNest /\ ArgsStay => TargetsGetArguments
<1> SUFFICES ASSUME CallsNest, ArgsStay, NEW d \in DOMAIN calls, calls[d].state = "running",
                    Good(calls[d]), AlignKept(calls[d].cif)
             PROVE  Received(calls[d]) = Sent(calls[d])
  <2>1. \A call : ~call.cif.varargs => AlignKept(call.cif)
    BY DEF AlignKept
  <2> QED
    BY <2>1 DEF TargetsGetArguments, Good
<1>1. d \in 1..Len(calls)
  BY DEF CallsNest
<1>2. CallOK(calls[d]) /\ HasArgs(mem, calls[d])
  BY <1>1 DEF CallsNest, ArgsStay
<1> QED
  BY <1>2, ArgsReceived

-----------------------------------------------------------------------------
(* Calls that come back.                                                  *)

\* A call's frames lie one below the other.
LEMMA CallBounds ==
  ASSUME NEW call, CallOK(call)
  PROVE  /\ Entered(call) \in Nat /\ call.saved \in Nat /\ call.base \in Nat /\ Before(call) \in Nat
         /\ Entered(call) <= call.saved /\ call.saved <= call.base /\ call.base <= Before(call)
         /\ Before(call) <= StackTop
<1>1. PICK c \in Cifs : c = call.cif
  BY DEF CallOK
<1>2. PICK b \in Nat : b = call.base
  BY DEF CallOK, Sixteens
<1>3. PICK s \in Nat : s = call.saved /\ s <= b
  BY <1>2 DEF CallOK, Sixteens
<1>4. PICK f \in Nat : f = CallerFrame(c).size
  BY CallerFrameOK DEF Fours
<1>5. PICK g \in Nat : g = ClosureFrame(build_sig(c)).size
  BY ClosureFrameOK DEF Fours
<1>6. Before(call) = b + f
  BY <1>1, <1>2, <1>4 DEF Before
<1>7. Entered(call) = s \/ Entered(call) = s - g
  BY <1>1, <1>3, <1>5 DEF Entered
<1>8. PICK e \in Nat : e = Entered(call)
  BY DEF CallOK, Sixteens
<1>9. e <= s
  BY <1>7, <1>8
<1>10. Before(call) <= StackTop
  BY DEF CallOK
<1> QED
  BY <1>2, <1>3, <1>6, <1>8, <1>9, <1>10

\* Calls lie below the calls they are made from.
LEMMA CallsBelow ==
  ASSUME CallsNest, NEW n \in Nat, n = Len(calls), NEW d \in 1..n
  PROVE  \A e \in 1..n : d < e => Before(calls[e]) <= Entered(calls[d])
<1> DEFINE S == {e \in 0..n : d < e => Before(calls[e]) <= Entered(calls[d])}
<1>1. 0 \in S
  OBVIOUS
<1>2. ASSUME NEW e \in 0..n, e # n, e \in S
      PROVE  e + 1 \in S
  <2>1. e + 1 \in 1..n /\ (e + 1) - 1 = e
    BY <1>2
  <2>2. CASE ~(d < e + 1)
    BY <2>1, <2>2
  <2>3. CASE d < e + 1
    <3>1. e \in 1..n /\ e + 1 # 1
      BY <2>1, <2>3
    <3>2. Before(calls[e + 1]) = Entered(calls[e])
      BY <2>1, <3>1 DEF CallsNest
    <3>3. CASE d = e
      <4>1. PICK x \in Nat : x = Entered(calls[e])
        BY <3>1, CallBounds DEF CallsNest
      <4> QED
        BY <2>1, <3>2, <3>3, <4>1
    <3>4. CASE d < e
      <4>1. PICK x \in Nat : x = Entered(calls[e])
        BY <3>1, CallBounds DEF CallsNest
      <4>2. PICK y \in Nat : y = Entered(calls[d])
        BY CallBounds DEF CallsNest
      <4>3. PICK z \in Nat : z = Before(calls[e]) /\ x <= z
        <5>1. CallOK(calls[e])
          BY <3>1 DEF CallsNest
        <5>2. PICK s \in Nat : s = calls[e].saved /\ x <= s
          BY <4>1, <5>1, CallBounds
        <5>3. PICK b \in Nat : b = calls[e].base /\ s <= b
          BY <5>1, <5>2, CallBounds
        <5>4. PICK z \in Nat : z = Before(calls[e]) /\ b <= z
          BY <5>1, <5>3, CallBounds
        <5>5. x <= z
          BY <5>2, <5>3, <5>4
        <5> QED
          BY <5>4, <5>5
      <4>4. z <= y
        BY <1>2, <3>4, <4>2, <4>3
      <4>5. x <= y
        BY <4>3, <4>4
      <4> QED
        BY <2>1, <3>2, <4>1, <4>2, <4>5
    <3>5. d = e \/ d < e
      BY <2>3
    <3> QED
      BY <3>3, <3>4, <3>5
  <2> QED
    BY <2>2, <2>3
<1> HIDE DEF S
<1>3. \A e \in 0..n : e # n /\ e \in S => e + 1 \in S
  BY <1>2
<1>4. \A e \in 0..n : e \in S
  BY <1>1, <1>3, Induction
<1> TAKE e \in 1..n
<1>5. e \in S
  BY <1>4
<1> QED
  BY <1>5 DEF S

\* What lies under the stack pointer.
LEMMA DeadBelow ==
  ASSUME NEW m, DOMAIN m = Addresses, NEW lo \in Nat
  PROVE  Agree(m, Below(m, lo), lo)
<1> SUFFICES ASSUME NEW a \in Addresses, lo <= a PROVE Below(m, lo)[a] = m[a]
  BY DEF Agree
<1>1. a \in Nat
  BY AddressOK DEF Fours
<1>2. ~(a < lo)
  BY <1>1
<1> QED
  BY <1>2 DEF Below

\* A store that ends below an address changes nothing above it.
LEMMA WordsBelow ==
  ASSUME NEW m, DOMAIN m = Addresses, NEW at \in Nat, NEW words, Len(words) \in Nat, NEW lo \in Nat,
         at + 4 * Len(words) <= lo
  PROVE  Agree(m, Store(m, at, words), lo)
<1> SUFFICES ASSUME NEW a \in Addresses, lo <= a PROVE Store(m, at, words)[a] = m[a]
  BY DEF Agree
<1>1. a \in Nat
  BY AddressOK DEF Fours
<1>2. PICK n \in Nat : n = Len(words)
  OBVIOUS
<1>3. a \notin at..(at + 4 * n - 1)
  BY <1>1, <1>2
<1> QED
  BY <1>2, <1>3 DEF Store

\* A result is stored in the 16 bytes it is given.
LEMMA ResultBelow ==
  ASSUME NEW c \in Cifs, NEW depth \in Nat, NEW m, DOMAIN m = Addresses, NEW to \in Nat, NEW lo \in Nat,
         NEW size \in Nat, to + size <= lo, GoodPieces(CPieces(c.rtype), size)
  PROVE  Agree(m, StoreAll(m, ResultStores(c, depth, to)), lo)
<1>1. PICK ps : ps = CPieces(c.rtype)
  OBVIOUS
<1>2. PICK n \in Nat : n = Len(ps) /\ DOMAIN ps = 1..n
  BY <1>1 DEF GoodPieces
<1>3. PICK r : r = Result(c, depth)
  OBVIOUS
<1>4. PICK stores : stores = ResultStores(c, depth, to)
  OBVIOUS
<1>5. stores = [i \in 1..n |-> [at |-> to + ps[i].at, words |-> r[i]]]
  BY <1>1, <1>2, <1>3, <1>4 DEF ResultStores
<1>6. ASSUME NEW i \in 1..n
      PROVE  /\ stores[i].at \in Nat /\ Len(stores[i].words) \in Nat
             /\ stores[i].at + 4 * Len(stores[i].words) <= lo
  <2>1. ps \in Seq([at : Fours, size : Fours]) /\ ps[i].at + ps[i].size <= size
    BY <1>1, <1>2 DEF GoodPieces
  <2>2. PICK p \in Nat : p = ps[i].at
    BY <1>2, <2>1, PieceOK DEF Fours
  <2>3. PICK s \in Nat : s = ps[i].size
    BY <1>2, <2>1, PieceOK DEF Fours
  <2>4. PICK w \in Seq(Int) : w = r[i] /\ 4 * Len(w) = s
    BY <1>1, <1>2, <1>3, <2>3, ResultWords
  <2>5. stores[i] = [at |-> to + p, words |-> w]
    BY <1>5, <2>2, <2>4
  <2>6. PICK l \in Nat : l = Len(w)
    OBVIOUS
  <2>7. 4 * l = s /\ p + s <= size
    BY <2>1, <2>2, <2>3, <2>4, <2>6
  <2>8. to + p \in Nat /\ to + p + 4 * l <= lo
    BY <2>7
  <2> QED
    BY <2>5, <2>6, <2>8
<1>7. DOMAIN stores = 1..n
  BY <1>5
<1>8. Agree(m, StoreAll(m, stores), lo)
  BY <1>6, <1>7, StoredBelow
<1> QED
  BY <1>4, <1>8

\* The call a target returns from changes nothing outside its frames.
LEMMA ReturnsBelow ==
  ASSUME StackInv, TargetReturns
  PROVE  Agree(mem, mem', Before(Top))
<1>1. PICK n \in Nat : n = Len(calls) /\ n \in 1..n
  BY DEF StackInv, CallsNest, TargetReturns
<1>2. PICK top : top = calls[n] /\ CallOK(top)
  BY <1>1 DEF StackInv, CallsNest
<1>3. Top = top
  BY <1>1, <1>2 DEF Top
<1>4. PICK c \in Cifs : c = top.cif
  BY <1>2 DEF CallOK
<1>5. PICK p : p = build_sig(c).Return
  OBVIOUS
<1>6. PICK to : to = IF top.target # "c" THEN top.funRvalue
                     ELSE IF IsAggregate(p) THEN top.operands[1][1] ELSE top.rvalue
  OBVIOUS
<1>7. PICK m : m = StoreAll(mem, ResultStores(c, n, to))
  OBVIOUS
<1>8. PICK back : back = IF top.target # "c" /\ HasResult(p)
                           THEN Store(m, top.rvalue, Load(m, to, ByteSize(p))) ELSE m
  OBVIOUS
<1>9. mem' = Below(back, Restored(top))
  BY <1>1, <1>3, <1>4, <1>5, <1>6, <1>7, <1>8 DEF TargetReturns
<1>10. PICK before \in Nat : before = Before(top)
  BY <1>2, CallBounds
<1>11. PICK base \in Nat : base = top.base /\ base <= before /\ Restored(top) = base
  BY <1>2, <1>10, CallBounds DEF CallOK, Restored
<1>12. PICK rvalue \in Nat : rvalue = top.rvalue /\ rvalue + 16 <= before /\ rvalue \in Fours
  <2>1. PICK f \in Nat : f = CallerFrame(c).rvalue /\ f \in Fours
    BY CallerFrameOK DEF Fours
  <2>2. PICK s \in Nat : s = CallerFrame(c).size /\ f + 16 <= s
    BY <2>1, CallerFrameOK DEF Fours
  <2>3. top.rvalue = base + f /\ before = base + s
    BY <1>2, <1>4, <1>10, <1>11, <2>1, <2>2 DEF CallOK, Before
  <2>4. base \in Fours
    BY <1>2, <1>11, SixteensAreFours DEF CallOK
  <2>5. base + f \in Fours
    BY <2>1, <2>4, FoursAdd
  <2>6. base + f \in Nat /\ base + f + 16 <= before
    BY <2>2, <2>3
  <2> QED
    BY <2>3, <2>5, <2>6
<1>13. /\ c.rtype \in CTypes /\ CSize(c.rtype) <= 16 /\ p = encode_type(c.rtype)
       /\ GoodPieces(CPieces(c.rtype), CSize(c.rtype)) /\ CSize(c.rtype) \in Nat
  <2>1. c.rtype \in CTypes /\ CSize(c.rtype) <= 16 /\ p = encode_type(c.rtype)
    BY <1>5, CifOK, SigOK
  <2> QED
    BY <2>1, CValue DEF Fours
<1>131. HasResult(p) => /\ ByteSize(p) \in {4, 8} /\ Len(CPieces(c.rtype)) = 1
                        /\ CPieces(c.rtype)[1] = [at |-> 0, size |-> ByteSize(p)]
  <2>1. PICK t \in CTypes : t = c.rtype /\ CSize(t) <= 16 /\ p = encode_type(t)
    BY <1>13
  <2>2. HasResult(encode_type(t)) =>
          /\ ByteSize(encode_type(t)) \in {4, 8} /\ Len(CPieces(t)) = 1
          /\ CPieces(t)[1] = [at |-> 0, size |-> ByteSize(encode_type(t))]
    BY <2>1, Returned
  <2> QED
    BY <2>1, <2>2
<1>14. DOMAIN mem = Addresses
  BY DEF StackInv, MemOK
<1>15. Agree(mem, m, before)
  <2>1. PICK size \in Nat : size = CSize(c.rtype) /\ size <= 16
    BY <1>13
  <2>2. CASE to = rvalue
    <3>1. rvalue + size <= before
      BY <1>12, <2>1
    <3>2. GoodPieces(CPieces(c.rtype), size)
      BY <1>13, <2>1
    <3>3. Agree(mem, StoreAll(mem, ResultStores(c, n, rvalue)), before)
      BY <1>14, <3>1, <3>2, ResultBelow
    <3> QED
      BY <1>7, <2>2, <3>3
  <2>3. CASE top.target # "c" /\ HasResult(p)
    <3>1. PICK b \in Nat : b = ByteSize(p) /\ Len(CPieces(c.rtype)) = 1
                           /\ CPieces(c.rtype)[1] = [at |-> 0, size |-> b]
      <4>1. ByteSize(p) \in Nat
        BY <1>131, <2>3
      <4> QED
        BY <1>131, <2>3, <4>1
    <3>2. PICK t \in Nat : t = to /\ t + b <= top.saved
      BY <1>2, <1>4, <1>5, <1>6, <2>3, <3>1 DEF CallOK, Fours
    <3>3. PICK s \in Nat : s = top.saved /\ s <= base
      BY <1>2, <1>11, CallBounds
    <3>4. t + b <= before
      BY <1>11, <3>2, <3>3
    <3>5. GoodPieces(CPieces(c.rtype), b)
      <4>1. PICK ps : ps = CPieces(c.rtype)
        OBVIOUS
      <4>2. ps \in Seq([at : Fours, size : Fours]) /\ Len(ps) = 1 /\ ps[1] = [at |-> 0, size |-> b]
        BY <1>13, <3>1, <4>1 DEF GoodPieces
      <4>3. \A i \in 1..Len(ps) : ps[i].at + ps[i].size <= b
        BY <4>2
      <4>4. \A i, j \in 1..Len(ps) : i < j => ps[i].at + ps[i].size <= ps[j].at
        BY <4>2
      <4> QED
        BY <4>1, <4>2, <4>3, <4>4 DEF GoodPieces
    <3>6. Agree(mem, StoreAll(mem, ResultStores(c, n, t)), before)
      BY <1>14, <3>4, <3>5, ResultBelow
    <3> QED
      BY <1>7, <3>2, <3>6
  <2>4. CASE to # rvalue /\ ~(top.target # "c" /\ HasResult(p))
    <3>1. ~HasResult(p) /\ ~IsAggregate(p)
      BY <1>2, <1>4, <1>5, <1>6, <1>12, <2>4 DEF CallOK
    <3>2. Len(CPieces(c.rtype)) = 0
      BY <1>13, <3>1, Returned
    <3>3. DOMAIN CPieces(c.rtype) = {}
      <4>1. PICK ps : ps = CPieces(c.rtype)
        OBVIOUS
      <4>2. ps \in Seq([at : Fours, size : Fours]) /\ Len(ps) = 0
        BY <1>13, <3>2, <4>1 DEF GoodPieces
      <4> QED
        BY <4>1, <4>2
    <3>4. PICK stores : stores = ResultStores(c, n, to)
      OBVIOUS
    <3>5. DOMAIN stores = {}
      BY <3>3, <3>4 DEF ResultStores
    <3>6. Agree(mem, StoreAll(mem, stores), before)
      BY <1>14, <3>5, StoredBelow
    <3> QED
      BY <1>7, <3>4, <3>6
  <2> QED
    BY <2>2, <2>3, <2>4
<1>16. DOMAIN m = Addresses
  BY <1>7, <1>14, SameDomain
<1>17. Agree(m, back, before) /\ DOMAIN back = Addresses
  <2>1. CASE top.target # "c" /\ HasResult(p)
    <3>1. PICK b \in Fours : b = ByteSize(p) /\ b \in {4, 8}
      <4>1. ByteSize(p) \in Fours
        BY <1>131, <2>1 DEF Fours
      <4> QED
        BY <1>131, <2>1, <4>1
    <3>2. PICK words : words = Load(m, to, b)
      OBVIOUS
    <3>3. PICK l \in Nat : l = Len(words) /\ 4 * l = b
      <4>1. words = [k \in 1..(b \div 4) |-> m[to + 4 * (k - 1)]]
        BY <3>2 DEF Load
      <4>2. b \div 4 \in Nat /\ 4 * (b \div 4) = b
        BY <3>1
      <4> QED
        BY <4>1, <4>2
    <3>4. rvalue + 4 * l <= before
      BY <1>12, <3>1, <3>3
    <3>5. Agree(m, Store(m, rvalue, words), before)
      BY <1>16, <3>3, <3>4, WordsBelow
    <3>6. back = Store(m, rvalue, words)
      BY <1>8, <1>12, <2>1, <3>1, <3>2
    <3> QED
      BY <1>16, <3>5, <3>6, SameDomain
  <2>2. CASE ~(top.target # "c" /\ HasResult(p))
    <3>1. back = m
      BY <1>8, <2>2
    <3> QED
      BY <1>16, <3>1 DEF Agree
  <2> QED
    BY <2>1, <2>2
<1>18. Agree(back, Below(back, base), before)
  <2>1. Agree(back, Below(back, base), base)
    BY <1>17, DeadBelow
  <2> QED
    BY <1>11, <2>1, AgreeHigher
<1>19. Agree(mem, Below(back, base), before)
  BY <1>15, <1>17, <1>18, AgreeTwice
<1> QED
  BY <1>3, <1>9, <1>10, <1>11, <1>19

\* Calls keep their arguments while a call they have made runs.
LEMMA KeptOutside ==
  ASSUME CallsNest, ArgsStay, NEW n \in Nat, n = Len(calls), NEW d \in 1..n, NEW lo \in Nat,
         lo <= Entered(calls[d]), NEW after, Agree(mem, after, lo),
         calls[d].state = "running", Good(calls[d])
  PROVE  HasArgs(after, calls[d])
<1>1. PICK call : call = calls[d]
  OBVIOUS
<1>2. CallOK(call) /\ HasArgs(mem, call)
  BY <1>1 DEF CallsNest, ArgsStay
<1>3. PICK e \in Nat : e = Entered(call)
  BY <1>2, CallBounds
<1>4. Agree(mem, after, Entered(call))
  BY <1>1, <1>3, AgreeHigher
<1> QED
  BY <1>1, <1>2, <1>4, KeepsArgs

\* A target that returns writes only below the calls outside it.
LEMMA ArgsReturn ==
  ASSUME StackInv, ArgsStay, TargetReturns
  PROVE  ArgsStay'
<1>1. CallsNest
  BY DEF StackInv
<1>2. PICK S : calls \in Seq(S)
  BY <1>1 DEF CallsNest
<1>3. PICK n \in Nat : n = Len(calls) /\ n \in 1..n
  BY <1>2 DEF TargetReturns
<1>4. /\ calls' = [calls EXCEPT ![n].state = "back"]
      /\ Top = calls[n]
  BY <1>3 DEF TargetReturns, Top
<1>5. Len(calls') = n /\ \A d \in 1..n : d # n => calls'[d] = calls[d]
  BY <1>2, <1>3, <1>4
<1>6. calls'[n].state = "back"
  <2>1. CallOK(calls[n]) /\ DOMAIN calls = 1..n
    BY <1>1, <1>2, <1>3 DEF CallsNest
  <2>2. calls'[n] = [calls[n] EXCEPT !.state = "back"]
    BY <1>3, <1>4, <2>1
  <2>3. "state" \in DOMAIN calls[n]
    BY <2>1 DEF CallOK
  <2> QED
    BY <2>2, <2>3
<1>7. PICK after : after = mem'
  OBVIOUS
<1>8. ASSUME NEW d \in 1..n, calls'[d].state = "running", Good(calls'[d])
      PROVE  HasArgs(after, calls'[d])
  <2>1. d # n
    BY <1>6, <1>8
  <2>2. calls'[d] = calls[d] /\ d < n
    BY <1>5, <2>1
  <2>3. PICK lo \in Nat : lo = Before(calls[n])
    BY <1>1, <1>3, CallBounds DEF CallsNest
  <2>4. lo <= Entered(calls[d])
    BY <1>1, <1>3, <2>2, <2>3, CallsBelow
  <2>5. Agree(mem, after, lo)
    BY <1>4, <1>7, <2>3, ReturnsBelow
  <2>6. calls[d].state = "running" /\ Good(calls[d])
    BY <1>8, <2>2
  <2>7. HasArgs(after, calls[d])
    BY <1>1, <1>3, <2>4, <2>5, <2>6, KeptOutside
  <2> QED
    BY <2>2, <2>7
<1> QED
  BY <1>5, <1>7, <1>8 DEF ArgsStay

\* So does a caller that pops its frame.
LEMMA ArgsPop ==
  ASSUME StackInv, ArgsStay, CallerGoesOn
  PROVE  ArgsStay'
<1>1. CallsNest /\ DOMAIN mem = Addresses
  BY DEF StackInv, MemOK
<1>2. PICK S : calls \in Seq(S)
  BY <1>1 DEF CallsNest
<1>3. PICK n \in Nat : n = Len(calls) /\ n \in 1..n
  BY <1>2 DEF CallerGoesOn
<1>4. calls' = SubSeq(calls, 1, n - 1) /\ mem' = Below(mem, Before(calls[n]))
  BY <1>3 DEF CallerGoesOn, Top, Before
<1>5. Len(calls') = n - 1 /\ \A d \in 1..(n - 1) : calls'[d] = calls[d]
  BY <1>2, <1>3, <1>4
<1>6. PICK after : after = mem'
  OBVIOUS
<1>7. ASSUME NEW d \in 1..(n - 1), calls'[d].state = "running", Good(calls'[d])
      PROVE  HasArgs(after, calls'[d])
  <2>1. calls'[d] = calls[d] /\ d \in 1..n /\ d < n
    BY <1>3, <1>5
  <2>2. PICK lo \in Nat : lo = Before(calls[n])
    BY <1>1, <1>3, CallBounds DEF CallsNest
  <2>3. lo <= Entered(calls[d])
    BY <1>1, <1>3, <2>1, <2>2, CallsBelow
  <2>4. Agree(mem, after, lo)
    BY <1>1, <1>4, <1>6, <2>2, DeadBelow
  <2>5. calls[d].state = "running" /\ Good(calls[d])
    BY <1>7, <2>1
  <2>6. HasArgs(after, calls[d])
    BY <1>1, <1>3, <2>1, <2>3, <2>4, <2>5, KeptOutside
  <2> QED
    BY <2>1, <2>6
<1> QED
  BY <1>5, <1>6, <1>7 DEF ArgsStay

-----------------------------------------------------------------------------
(* The memory a call's trampolines make.                                  *)

\* The call trampoline of a call, entered with memory m.
Tramp(m, call) ==
  CallTrampoline(build_sig(call.cif), m, call.base, call.base + CallerFrame(call.cif).avalue,
                 call.base + CallerFrame(call.cif).rvalue)

\* What a call's trampolines make of the memory its caller leaves.
Makes(call, m, after) ==
  /\ call.operands = Tramp(m, call).operands /\ call.saved = Tramp(m, call).sp
  /\ call.target # "c" => call.funAvalue = Entered(call) + ClosureFrame(build_sig(call.cif)).avalue
  /\ after = IF call.target = "c" THEN Tramp(m, call).mem
             ELSE StoreAll(Tramp(m, call).mem,
                           ClosureStores(build_sig(call.cif), call.operands, Entered(call)))

\* Where the arguments of a call are.
At(call) == [i \in 1..Len(call.cif.args) |-> call.base + CallerFrame(call.cif).args[i]]

\* The caller has pointed at its arguments.
Pointed(m, call) ==
  /\ DOMAIN m = Addresses
  /\ PointedAt(m, call.base + CallerFrame(call.cif).avalue, At(call), Len(call.cif.args))

\* The addresses of the arguments.
LEMMA AtOK ==
  ASSUME NEW call, CallOK(call)
  PROVE  At(call) \in [1..Len(call.cif.args) -> Fours]
BY PassedFits DEF At

\* The caller points at its arguments, and writes only its own frame.
LEMMA CallerPuts ==
  ASSUME NEW call, CallOK(call), NEW m, DOMAIN m = Addresses, NEW depth
  PROVE  /\ Pointed(StoreAll(m, CallerStores(call.cif, call.base, depth)), call)
         /\ Agree(m, StoreAll(m, CallerStores(call.cif, call.base, depth)), Before(call))
<1>1. PICK c \in Cifs : c = call.cif
  BY DEF CallOK
<1>2. PICK base \in Fours : base = call.base
  BY SixteensAreFours DEF CallOK
<1>3. base + CallerFrame(c).size <= StackTop /\ base + CallerFrame(c).size = Before(call)
  BY <1>1, <1>2 DEF CallOK, Before
<1>4. PICK after : after = StoreAll(m, CallerStores(c, base, depth))
  OBVIOUS
<1>5. /\ \A i \in 1..Len(c.args) : after[base + CallerFrame(c).avalue + 4 * (i - 1)] = base + CallerFrame(c).args[i]
      /\ Agree(m, after, base + CallerFrame(c).size)
  BY <1>3, <1>4, CallerStored
<1>6. DOMAIN after = Addresses
  BY <1>4, SameDomain
<1>7. Pointed(after, call)
  BY <1>1, <1>2, <1>5, <1>6 DEF Pointed, PointedAt, At
<1> QED
  BY <1>1, <1>2, <1>3, <1>4, <1>5, <1>7

\* What the trampolines of a good call move are the scalars of its arguments.
LEMMA GoodArgs ==
  ASSUME NEW call, CallOK(call), Good(call), NEW i \in 1..Len(call.cif.args)
  PROVE  Pieces(build_sig(call.cif).Params[i]) = CPieces(call.cif.args[i])
<1>1. PICK c \in Cifs : c = call.cif
  BY DEF CallOK
<1>2. PICK t \in CTypes : t = c.args[i] /\ build_sig(c).Params[i] = encode_type(t)
  BY <1>1, CifOK, SigOK
<1>3. DOMAIN c.args = 1..Len(c.args)
  BY CifOK
<1>4. CSize(t) <= 16
  <2>1. CASE SizesKept(c)
    <3>1. i \in 1..Len(c.args)
      BY <1>1, <1>3
    <3> QED
      BY <1>2, <2>1, <3>1, KeptSizes
  <2>2. CASE ~ByPointer(c)
    <3>1. ~(CSize(t) > 16)
      BY <1>1, <1>2, <1>3, <2>2 DEF ByPointer
    <3>2. CSize(t) \in Nat
      BY CValue DEF Fours
    <3> QED
      BY <3>1, <3>2
  <2> QED
    BY <1>1, <2>1, <2>2 DEF Good
<1> QED
  BY <1>1, <1>2, <1>4, SamePieces

\* So what is read through the pointers is what was passed.
LEMMA GoodReads ==
  ASSUME NEW call, CallOK(call), Good(call), NEW m, NEW k \in Nat, k <= Len(call.cif.args)
  PROVE  ArgReads(call.cif, m, At(call), k) = PassedUpTo(m, call, k)
<1>1. PICK n \in Nat : n = Len(call.cif.args) /\ k <= n
  BY CifOK DEF CallOK
<1>2. ASSUME NEW i \in 1..k
      PROVE  Read(m, At(call)[i], ParamPieces(call.cif)[i]) = Passed(m, call, i)
  <2>1. i \in 1..Len(call.cif.args)
    BY <1>1
  <2>2. ParamPieces(call.cif)[i] = CPieces(call.cif.args[i])
    BY <2>1, GoodArgs DEF ParamPieces
  <2>3. At(call)[i] = call.base + CallerFrame(call.cif).args[i]
    BY <2>1 DEF At
  <2> QED
    BY <2>2, <2>3 DEF Passed
<1> QED
  BY <1>2 DEF ArgReads, PassedUpTo

\* Operands.
LEMMA OperandsMade ==
  ASSUME NEW call, CallOK(call), NEW m, Pointed(m, call), NEW after, Makes(call, m, after)
  PROVE  /\ Good(call) => InOperands(m, call)
         /\ call.cif.varargs =>
              /\ call.operands[Len(call.operands)][1] = call.base - VarargsLayout(build_sig(call.cif)).size
         /\ Holds(call.operands, FirstArg(call.cif) - 1,
                  FlattenSeq(ArgReads(call.cif, m, At(call), Ordered(call.cif))))
<1>1. PICK c \in Cifs : c = call.cif
  BY DEF CallOK
<1>2. PICK A \in [1..Len(c.args) -> Fours] : A = At(call)
  BY <1>1, AtOK
<1>3. PICK avalue : avalue = call.base + CallerFrame(c).avalue
  OBVIOUS
<1>4. PICK rvalue : rvalue = call.base + CallerFrame(c).rvalue
  OBVIOUS
<1>5. PointedAt(m, avalue, A, Len(c.args))
  BY <1>1, <1>2, <1>3 DEF Pointed
<1>6. PICK V : V = ArgReads(c, m, A, Ordered(c))
  OBVIOUS
<1>7. PICK ops : ops = call.operands
  OBVIOUS
<1>71. PICK base : base = call.base
  OBVIOUS
<1>8. ops = CallTrampoline(build_sig(c), m, base, avalue, rvalue).operands
  BY <1>1, <1>3, <1>4, <1>7, <1>71 DEF Makes, Tramp
<1>9. /\ SubSeq(ops, FirstArg(c), IF c.varargs THEN Len(ops) - 1 ELSE Len(ops)) = FlattenSeq(V)
      /\ c.varargs => ops[Len(ops)][1] = base - VarargsLayout(build_sig(c)).size
      /\ Holds(ops, FirstArg(c) - 1, FlattenSeq(V))
  BY <1>5, <1>6, <1>8, CallOperands
<1>10. ASSUME Good(call) PROVE InOperands(m, call)
  <2>1. PICK k \in Nat : k = Ordered(c) /\ k <= Len(c.args)
    BY CifOK DEF Ordered
  <2>2. V = PassedUpTo(m, call, k)
    BY <1>1, <1>2, <1>6, <1>10, <2>1, GoodReads
  <2> QED
    BY <1>1, <1>7, <1>9, <2>1, <2>2 DEF InOperands
<1> QED
  BY <1>1, <1>2, <1>6, <1>7, <1>71, <1>9, <1>10

-----------------------------------------------------------------------------
(* The variadic buffer.                                                   *)

\* The caller's frame has room for a result.
LEMMA RoomAbove ==
  ASSUME NEW call, CallOK(call)
  PROVE  Before(call) \in Nat /\ call.base \in Nat /\ call.base + 16 <= Before(call)
<1>1. PICK c \in Cifs : c = call.cif
  BY DEF CallOK
<1>2. PICK base \in Nat : base = call.base
  BY CallBounds
<1>3. PICK r \in Nat : r = CallerFrame(c).rvalue
  BY CallerFrameOK DEF Fours
<1>4. PICK s \in Nat : s = CallerFrame(c).size /\ r + 16 <= s
  BY <1>3, CallerFrameOK DEF Fours
<1>5. Before(call) = base + s
  BY <1>1, <1>2, <1>4 DEF Before
<1>6. base + s \in Nat /\ base + 16 <= base + s
  BY <1>4
<1> QED
  BY <1>2, <1>5, <1>6

\* The variadic arguments, as they are packed.
Variadic(call)  == Len(call.cif.args) - call.cif.nfixed
PackedPieces(call) == [j \in 1..Variadic(call) |-> Pieces(build_sig(call.cif).Params[call.cif.nfixed + j])]
PackedReads(m, call) ==
  [j \in 1..Variadic(call) |-> Read(m, At(call)[call.cif.nfixed + j], PackedPieces(call)[j])]
PackedSizes(call) ==
  [j \in 1..Variadic(call) |-> ByteSize(build_sig(call.cif).Params[call.cif.nfixed + j])]

Packs(m, call, after, stores) ==
  /\ after = StoreAll(m, stores)
  /\ \E N \in Nat : \E off :
       /\ Delivers(stores, N, Variadic(call), PackedPieces(call), VarargsLayout(build_sig(call.cif)).at,
                   call.saved, off, PackedReads(m, call), Words(m),
                   call.saved + VarargsLayout(build_sig(call.cif)).size)
       /\ Everything(N, Variadic(call), PackedPieces(call), off)

\* A variadic call packs what its prototype does not name.
LEMMA Packed ==
  ASSUME NEW call, CallOK(call), call.cif.varargs, NEW m, Pointed(m, call), NEW after,
         Makes(call, m, after)
  PROVE  /\ call.target = "c" /\ Variadic(call) \in Nat
         /\ call.saved + VarargsLayout(build_sig(call.cif)).size = call.base
         /\ \E stores : Packs(m, call, after, stores)
<1>1. PICK c \in Cifs : c = call.cif /\ c.varargs
  BY DEF CallOK
<1>2. PICK A \in [1..Len(c.args) -> Fours] : A = At(call)
  BY <1>1, AtOK
<1>3. PICK avalue : avalue = call.base + CallerFrame(c).avalue
  OBVIOUS
<1>4. PointedAt(m, avalue, A, Len(c.args))
  BY <1>1, <1>2, <1>3 DEF Pointed
<1>5. PICK K \in Nat : K = Variadic(call) /\ K = Len(c.args) - c.nfixed
  BY <1>1, VarargsOK DEF Variadic
<1>6. PICK P : P = PackedPieces(call)
  OBVIOUS
<1>7. PICK V : V = PackedReads(m, call)
  OBVIOUS
<1>8. P = [j \in 1..K |-> Pieces(build_sig(c).Params[c.nfixed + j])]
  BY <1>1, <1>5, <1>6 DEF PackedPieces
<1>9. V = [j \in 1..K |-> Read(m, A[c.nfixed + j], P[j])]
  BY <1>1, <1>2, <1>5, <1>6, <1>7 DEF PackedReads
<1>10. PICK buffer \in Fours : buffer = call.saved
  BY SixteensAreFours DEF CallOK
<1>11. call.target = "c"
  BY DEF CallOK
<1>12. PICK z \in Nat : z = VarargsLayout(build_sig(c)).size
  BY VarargsOK DEF Fours
<1>13. PICK b \in Nat : b = call.base
  BY CallBounds
<1>14. buffer = b - z
  <2>1. build_sig(c).Varargs
    BY <1>1, SigOK
  <2>2. Tramp(m, call).sp = call.base - VarargsLayout(build_sig(c)).size
    BY <1>1, <2>1 DEF Tramp, CallTrampoline
  <2> QED
    BY <1>10, <1>12, <1>13, <2>2 DEF Makes
<1>15. PICK stores : stores = PackStores(m, avalue, build_sig(c), buffer)
  OBVIOUS
<1>16. after = StoreAll(m, stores)
  <2>1. build_sig(c).Varargs
    BY <1>1, SigOK
  <2>2. Tramp(m, call).mem = StoreAll(m, PackStores(m, avalue, build_sig(c), call.base - VarargsLayout(build_sig(c)).size))
    BY <1>1, <1>3, <2>1 DEF Tramp, CallTrampoline
  <2>3. after = Tramp(m, call).mem
    BY <1>11 DEF Makes
  <2> QED
    BY <1>12, <1>13, <1>14, <1>15, <2>2, <2>3
<1>17. PICK rest : rest = call.saved + VarargsLayout(build_sig(c)).size
  OBVIOUS
<1>18. \E N \in Nat : \E off :
          /\ Delivers(PackStores(m, avalue, build_sig(c), buffer), N, K, P,
                      VarargsLayout(build_sig(c)).at, buffer, off, V, Words(m), rest)
          /\ Everything(N, K, P, off)
  BY <1>4, <1>5, <1>8, <1>9, PackDelivers, ZenonT(60)
<1>19. Packs(m, call, after, stores)
  BY <1>1, <1>5, <1>6, <1>7, <1>10, <1>15, <1>16, <1>17, <1>18 DEF Packs
<1>20. buffer + z = b
  <2>1. buffer \in Nat
    BY DEF Fours
  <2> QED
    BY <1>14, <2>1
<1> QED
  BY <1>1, <1>5, <1>10, <1>11, <1>12, <1>13, <1>19, <1>20

\* Where the values lie in the buffer.
LEMMA PackedAt ==
  ASSUME NEW call, CallOK(call)
  PROVE  /\ Variadic(call) \in Nat
         /\ VarargsLayout(build_sig(call.cif)).at \in [1..Variadic(call) -> Fours]
         /\ PackedSizes(call) \in [1..Variadic(call) -> Fours]
         /\ VarargsLayout(build_sig(call.cif)).size \in Nat
         /\ \A j \in 1..Variadic(call) :
              /\ VarargsLayout(build_sig(call.cif)).at[j] + PackedSizes(call)[j]
                   <= VarargsLayout(build_sig(call.cif)).size
              /\ GoodPieces(PackedPieces(call)[j], 16)
              /\ SizesKept(call.cif) => GoodPieces(PackedPieces(call)[j], PackedSizes(call)[j])
         /\ \A i, j \in 1..Variadic(call) :
              i < j => VarargsLayout(build_sig(call.cif)).at[i] + PackedSizes(call)[i]
                         <= VarargsLayout(build_sig(call.cif)).at[j]
<1>1. PICK c \in Cifs : c = call.cif
  BY DEF CallOK
<1>2. PICK layout : layout = VarargsLayout(build_sig(c))
  OBVIOUS
<1>3. PICK K \in Nat : K = Variadic(call) /\ K = Len(c.args) - c.nfixed
  BY <1>1, VarargsOK DEF Variadic
<1>4. /\ layout.size \in Nat /\ layout.at \in [1..K -> Fours]
      /\ \A j \in 1..K : layout.at[j] + ByteSize(build_sig(c).Params[c.nfixed + j]) <= layout.size
      /\ \A i, j \in 1..K :
           i < j => layout.at[i] + ByteSize(build_sig(c).Params[c.nfixed + i]) <= layout.at[j]
  BY <1>2, <1>3, VarargsOK DEF Fours
<1>5. PICK size : size = PackedSizes(call)
  OBVIOUS
<1>6. size = [j \in 1..K |-> ByteSize(build_sig(c).Params[c.nfixed + j])]
  BY <1>1, <1>3, <1>5 DEF PackedSizes
<1>7. PICK P : P = PackedPieces(call)
  OBVIOUS
<1>8. P = [j \in 1..K |-> Pieces(build_sig(c).Params[c.nfixed + j])]
  BY <1>1, <1>3, <1>7 DEF PackedPieces
<1>9. ASSUME NEW j \in 1..K
      PROVE  /\ size[j] \in Fours /\ GoodPieces(P[j], 16)
             /\ SizesKept(c) => GoodPieces(P[j], size[j])
  <2>1. PICK i \in 1..Len(c.args) : i = c.nfixed + j
    <3>1. c.nfixed \in Nat /\ Len(c.args) \in Nat
      BY CifOK
    <3> QED
      BY <1>3, <3>1
  <2>2. PICK t \in CTypes : t = c.args[i]
    BY CifOK
  <2>3. PICK p \in PTypes : p = encode_type(t)
    BY EncodedType
  <2>4. P[j] = Pieces(p) /\ size[j] = ByteSize(p)
    <3>1. build_sig(c).Params[i] = encode_type(t)
      BY <2>2, SigOK
    <3> QED
      BY <1>6, <1>8, <2>1, <2>3, <3>1
  <2>5. GoodPieces(Pieces(p), 16) /\ (ByteSize(p) = CSize(t) => GoodPieces(Pieces(p), ByteSize(p)))
    BY <2>3, PieceEnds
  <2>6. ByteSize(p) \in Fours
    BY PValue
  <2>7. SizesKept(c) => ByteSize(p) = CSize(t)
    <3>1. DOMAIN c.args = 1..Len(c.args)
      BY CifOK
    <3> QED
      BY <2>2, <2>3, <3>1, KeptSizes
  <2> QED
    BY <2>4, <2>5, <2>6, <2>7
<1>10. size \in [1..K -> Fours]
  BY <1>6, <1>9
<1>11. \A j \in 1..K : layout.at[j] + size[j] <= layout.size
  BY <1>4, <1>6
<1>12. \A i, j \in 1..K : i < j => layout.at[i] + size[i] <= layout.at[j]
  BY <1>4, <1>6
<1> QED
  BY <1>1, <1>2, <1>3, <1>4, <1>5, <1>7, <1>9, <1>10, <1>11, <1>12

\* The buffer changes nothing above the call, and nothing above itself if the sizes are kept.
LEMMA PackedBelow ==
  ASSUME NEW call, CallOK(call), call.cif.varargs, NEW m, Pointed(m, call), NEW after,
         Makes(call, m, after)
  PROVE  /\ Agree(m, after, Before(call))
         /\ SizesKept(call.cif) => Agree(m, after, call.base)
<1>1. PICK stores : Packs(m, call, after, stores)
  BY Packed
<1>2. PICK K \in Nat : K = Variadic(call)
  BY PackedAt
<1>3. PICK P : P = PackedPieces(call)
  OBVIOUS
<1>4. PICK at \in [1..K -> Fours] : at = VarargsLayout(build_sig(call.cif)).at
  BY <1>2, PackedAt
<1>5. PICK size \in [1..K -> Fours] : size = PackedSizes(call)
  BY <1>2, PackedAt
<1>6. PICK z \in Nat : z = VarargsLayout(build_sig(call.cif)).size
  BY PackedAt
<1>7. PICK V : V = PackedReads(m, call)
  OBVIOUS
<1>8. PICK b \in Fours : b = call.saved /\ b \in Nat
  BY SixteensAreFours, CallBounds DEF CallOK
<1>9. PICK base \in Nat : base = call.base /\ b + z = base
  BY <1>6, <1>8, CallBounds, Packed
<1>10. PICK W : W = Words(m)
  OBVIOUS
<1>11. PICK rest : rest = b + z
  OBVIOUS
<1>12. PICK N, off : /\ N \in Nat
                     /\ Delivers(stores, N, K, P, at, b, off, V, W, rest) /\ Everything(N, K, P, off)
  BY <1>1, <1>2, <1>3, <1>4, <1>6, <1>7, <1>8, <1>10, <1>11 DEF Packs
<1>13. DOMAIN m = Addresses /\ after = StoreAll(m, stores)
  BY <1>1 DEF Pointed, Packs
<1>14. \A lo : OthersBelow(stores, N, K, P, off, lo)
  BY <1>12 DEF Everything, OthersBelow
<1>15. \A j \in 1..K : /\ at[j] + size[j] <= z /\ GoodPieces(P[j], 16)
                       /\ SizesKept(call.cif) => GoodPieces(P[j], size[j])
  BY <1>2, <1>3, <1>4, <1>5, <1>6, PackedAt
<1>16. SizesKept(call.cif) => Agree(m, after, base)
  <2> HAVE SizesKept(call.cif)
  <2>1. \A j \in 1..K : GoodPieces(P[j], size[j]) /\ b + at[j] + size[j] <= base
    <3> TAKE j \in 1..K
    <3>1. at[j] \in Nat /\ size[j] \in Nat /\ at[j] + size[j] <= z
      BY <1>15 DEF Fours
    <3>2. b + at[j] + size[j] <= base
      BY <1>8, <1>9, <3>1
    <3> QED
      BY <1>15, <3>2
  <2>11. PiecesBelow(K, P, size, at, b, base)
    BY <2>1 DEF PiecesBelow
  <2>12. OthersBelow(stores, N, K, P, off, base)
    BY <1>14
  <2>2. Agree(m, StoreAll(m, stores), base)
    BY <1>12, <1>13, <2>11, <2>12, DeliversBelow
  <2> QED
    BY <1>13, <2>2
<1>17. PICK before \in Nat : before = Before(call) /\ base + 16 <= before
  BY <1>9, RoomAbove
<1>18. Agree(m, after, before)
  <2>0. 16 \in Fours
    BY DEF Fours
  <2>1. PICK wide \in [1..K -> Fours] : wide = [j \in 1..K |-> 16]
    BY <2>0
  <2>2. \A j \in 1..K : GoodPieces(P[j], wide[j]) /\ b + at[j] + wide[j] <= before
    <3> TAKE j \in 1..K
    <3>1. PICK a \in Nat : a = at[j]
      BY DEF Fours
    <3>11. PICK s \in Nat : s = size[j] /\ a + s <= z
      BY <1>15, <3>1 DEF Fours
    <3>12. b + a + 16 <= before
      <4>1. b \in Nat /\ z \in Nat /\ base \in Nat /\ before \in Nat /\ a \in Nat /\ s \in Nat
        BY <1>8
      <4>2. b + z = base /\ base + 16 <= before /\ a + s <= z
        BY <1>9, <1>17, <3>11
      <4> QED
        BY <4>1, <4>2
    <3>2. b + at[j] + 16 <= before
      BY <3>1, <3>12
    <3>3. wide[j] = 16
      BY <2>1
    <3> QED
      BY <1>15, <3>2, <3>3
  <2>21. PiecesBelow(K, P, wide, at, b, before)
    BY <2>2 DEF PiecesBelow
  <2>3. OthersBelow(stores, N, K, P, off, before)
    BY <1>14
  <2>4. Agree(m, StoreAll(m, stores), before)
    BY <1>12, <1>13, <2>21, <2>3, DeliversBelow
  <2> QED
    BY <1>13, <2>4
<1> QED
  BY <1>9, <1>16, <1>17, <1>18

\* A variadic function finds what its prototype does not name in the buffer.
LEMMA BufferMade ==
  ASSUME NEW call, CallOK(call), call.cif.varargs, SizesKept(call.cif), NEW m, Pointed(m, call),
         NEW after, Makes(call, m, after)
  PROVE  InBuffer(after, call)
<1>1. PICK stores : Packs(m, call, after, stores)
  BY Packed
<1>2. PICK K \in Nat : K = Variadic(call)
  BY PackedAt
<1>3. PICK P : P = PackedPieces(call)
  OBVIOUS
<1>4. PICK at \in [1..K -> Fours] : at = VarargsLayout(build_sig(call.cif)).at
  BY <1>2, PackedAt
<1>5. PICK size \in [1..K -> Fours] : size = PackedSizes(call)
  BY <1>2, PackedAt
<1>6. PICK z \in Nat : z = VarargsLayout(build_sig(call.cif)).size
  BY PackedAt
<1>7. PICK V : V = PackedReads(m, call)
  OBVIOUS
<1>8. PICK b \in Fours : b = call.saved
  BY SixteensAreFours DEF CallOK
<1>9. b + z = call.base /\ b + z <= StackTop /\ call.base \in Nat
  <2>1. b + z = call.base
    BY <1>6, <1>8, Packed
  <2>2. PICK base \in Nat : base = call.base
    BY CallBounds
  <2>3. PICK before \in Nat : before = Before(call) /\ base <= before /\ before <= StackTop
    BY <2>2, CallBounds
  <2>4. base <= StackTop
    BY <2>3, BoundsAssumption
  <2> QED
    BY <2>1, <2>2, <2>4
<1>10. PICK W : W = Words(m)
  OBVIOUS
<1>11. PICK N, off : /\ N \in Nat
                     /\ Delivers(stores, N, K, P, at, b, off, V, W, b + z)
  BY <1>1, <1>2, <1>3, <1>4, <1>6, <1>7, <1>8, <1>10 DEF Packs
<1>12. DOMAIN m = Addresses /\ after = StoreAll(m, stores)
  BY <1>1 DEF Pointed, Packs
<1>13. Laid(K, P, at, size, z)
  <2>1. \A j \in 1..K : at[j] + size[j] <= z /\ GoodPieces(P[j], size[j])
    BY <1>2, <1>3, <1>4, <1>5, <1>6, PackedAt
  <2>2. \A i, j \in 1..K : i < j => at[i] + size[i] <= at[j]
    BY <1>2, <1>4, <1>5, PackedAt
  <2> QED
    BY <2>1, <2>2 DEF Laid
<1>14. \A j \in 1..K : Read(after, b + at[j], P[j]) = [n \in 1..Len(P[j]) |-> V[j][n]]
  <2>1. ReadsBack(StoreAll(m, stores), K, P, at, b, V)
    BY <1>9, <1>11, <1>12, <1>13, Delivered
  <2> QED
    BY <1>12, <2>1 DEF ReadsBack
<1>15. ASSUME NEW j \in 1..K
       PROVE  Buffered(after, call, j)
  <2>1. PICK i \in 1..Len(call.cif.args) : i = call.cif.nfixed + j
    <3>0. PICK c \in Cifs : c = call.cif
      BY DEF CallOK
    <3>1. PICK f \in Nat : f = call.cif.nfixed
      BY <3>0, CifOK
    <3>2. PICK l \in Nat : l = Len(call.cif.args)
      BY <3>0, CifOK
    <3>3. K = l - f
      BY <1>2, <3>1, <3>2 DEF Variadic
    <3>4. f + j \in 1..l
      BY <3>3
    <3> QED
      BY <3>1, <3>2, <3>4
  <2>2. P[j] = CPieces(call.cif.args[i])
    <3>1. P[j] = Pieces(build_sig(call.cif).Params[i])
      BY <1>2, <1>3, <2>1 DEF PackedPieces
    <3> QED
      BY <3>1, GoodArgs DEF Good
  <2>3. V[j] = Passed(m, call, i)
    <3>1. V[j] = Read(m, At(call)[i], P[j])
      BY <1>2, <1>3, <1>7, <2>1 DEF PackedReads
    <3>2. At(call)[i] = call.base + CallerFrame(call.cif).args[i]
      BY DEF At
    <3> QED
      BY <2>2, <3>1, <3>2 DEF Passed
  <2>4. V[j] = [n \in 1..Len(P[j]) |-> V[j][n]]
    <3>1. PICK a \in Fours : a = At(call)[i]
      BY AtOK
    <3>2. PICK q \in Seq([at : Fours, size : Fours]) : q = P[j]
      BY <1>13 DEF Laid, GoodPieces
    <3>3. Read(m, a, q) = [n \in 1..Len(q) |-> Read(m, a, q)[n]]
      BY ReadWords
    <3>4. V[j] = Read(m, a, q)
      BY <1>2, <1>3, <1>7, <2>1, <3>1, <3>2 DEF PackedReads
    <3> QED
      BY <3>2, <3>3, <3>4
  <2>5. Read(after, b + at[j], P[j]) = Passed(m, call, i)
    BY <1>14, <2>3, <2>4
  <2>6. Passed(after, call, i) = Passed(m, call, i)
    <3>1. Agree(m, after, call.base)
      BY PackedBelow
    <3>2. PICK base \in Nat : base = call.base /\ base <= call.base
      BY <1>9
    <3>3. Agree(m, after, base)
      BY <3>1, <3>2
    <3>4. \A x \in 1..Len(call.cif.args) : Passed(after, call, x) = Passed(m, call, x)
      BY <3>2, <3>3, PassedSame
    <3> QED
      BY <3>4
  <2> QED
    BY <1>4, <1>8, <2>1, <2>2, <2>5, <2>6 DEF Buffered
<1>16. call.operands[Len(call.operands)][1] = call.saved
  <2>1. call.operands[Len(call.operands)][1] = call.base - VarargsLayout(build_sig(call.cif)).size
    BY OperandsMade
  <2>2. b \in Nat
    BY DEF Fours
  <2>3. call.base - z = b
    BY <1>9, <2>2
  <2> QED
    BY <1>6, <1>8, <2>1, <2>3
<1>17. call.saved + VarargsLayout(build_sig(call.cif)).size = call.base
  BY Packed
<1> QED
  BY <1>2, <1>15, <1>16, <1>17 DEF InBuffer, Variadic

-----------------------------------------------------------------------------
(* The frame of a closure's trampoline.                                   *)

\* The frame of a closure's trampoline, and what it puts there.
FrameOf(call)    == ClosureFrame(build_sig(call.cif))
FrameSizes(call) == [i \in 1..Len(call.cif.args) |-> ByteSize(build_sig(call.cif).Params[i])]
FrameReads(m, call) == ArgReads(call.cif, m, At(call), Len(call.cif.args))

Frames(m, call, after, stores) ==
  /\ after = StoreAll(m, stores)
  /\ FrameStores(stores, Len(call.cif.args), ParamPieces(call.cif), FrameOf(call).args, Entered(call),
                 FrameOf(call).avalue, FrameReads(m, call), Words(m))

\* A closure's trampoline stores its operands, then the pointers to them.
LEMMA Framing ==
  ASSUME NEW call, CallOK(call), call.target # "c", NEW m, Pointed(m, call), NEW after,
         Makes(call, m, after)
  PROVE  \E stores : Frames(m, call, after, stores)
<1>1. PICK c \in Cifs : c = call.cif /\ ~c.varargs
  BY DEF CallOK
<1>2. PICK K \in Nat : K = Len(c.args)
  BY CifOK
<1>3. PICK A \in [1..K -> Fours] : A = At(call)
  BY <1>1, <1>2, AtOK
<1>4. PICK avalue : avalue = call.base + CallerFrame(c).avalue
  OBVIOUS
<1>5. PointedAt(m, avalue, A, K)
  BY <1>1, <1>2, <1>3, <1>4 DEF Pointed
<1>6. PICK frame \in Fours : frame = Entered(call)
  BY SixteensAreFours DEF CallOK
<1>7. PICK P : P = ParamPieces(c)
  OBVIOUS
<1>8. PICK V : V = ArgReads(c, m, A, K)
  OBVIOUS
<1>9. PICK f : f = ClosureFrame(build_sig(c))
  OBVIOUS
<1>10. PICK ops : ops = call.operands
  OBVIOUS
<1>11. Holds(ops, FirstArg(c) - 1, FlattenSeq(V))
  <2>1. Holds(call.operands, FirstArg(call.cif) - 1,
              FlattenSeq(ArgReads(call.cif, m, At(call), Ordered(call.cif))))
    BY OperandsMade
  <2>2. Ordered(c) = K
    BY <1>1, <1>2 DEF Ordered
  <2> QED
    BY <1>1, <1>3, <1>8, <1>10, <2>1, <2>2
<1>12. PICK stores : stores = ClosureStores(build_sig(c), ops, frame)
  OBVIOUS
<1>14. FrameStores(stores, K, P, f.args, frame, f.avalue, V, Words(m))
  BY <1>2, <1>5, <1>7, <1>8, <1>9, <1>11, <1>12, ClosureDelivers
<1>15. after = StoreAll(m, stores)
  <2>1. ~build_sig(c).Varargs
    BY <1>1, SigOK
  <2>2. Tramp(m, call).mem = m
    BY <1>1, <2>1 DEF Tramp, CallTrampoline
  <2> QED
    BY <1>1, <1>6, <1>10, <1>12, <2>2 DEF Makes
<1>16. V = FrameReads(m, call) /\ f = FrameOf(call)
  BY <1>1, <1>2, <1>3, <1>8, <1>9 DEF FrameReads, FrameOf
<1>17. Frames(m, call, after, stores)
  BY <1>1, <1>2, <1>6, <1>7, <1>14, <1>15, <1>16 DEF Frames
<1> QED
  BY <1>17

\* Where the values and the pointers lie in the frame.
LEMMA FrameAt ==
  ASSUME NEW call, CallOK(call), call.target # "c"
  PROVE  /\ Len(call.cif.args) \in Nat /\ Entered(call) \in Fours
         /\ FrameOf(call).avalue \in Fours
         /\ FrameOf(call).args \in [1..Len(call.cif.args) -> Fours]
         /\ FrameSizes(call) \in [1..Len(call.cif.args) -> Fours]
         /\ Entered(call) + FrameOf(call).avalue + 4 * Len(call.cif.args) <= call.base
         /\ \A j \in 1..Len(call.cif.args) :
              /\ FrameOf(call).args[j] + FrameSizes(call)[j] <= FrameOf(call).avalue
              /\ GoodPieces(ParamPieces(call.cif)[j], 16)
              /\ SizesKept(call.cif) => GoodPieces(ParamPieces(call.cif)[j], FrameSizes(call)[j])
         /\ \A i, j \in 1..Len(call.cif.args) :
              i < j => FrameOf(call).args[i] + FrameSizes(call)[i] <= FrameOf(call).args[j]
<1>1. PICK c \in Cifs : c = call.cif /\ ~c.varargs
  BY DEF CallOK
<1>2. PICK K \in Nat : K = Len(c.args)
  BY CifOK
<1>3. PICK f : f = ClosureFrame(build_sig(c)) /\ f = FrameOf(call)
  BY <1>1 DEF FrameOf
<1>4. PICK size : size = FrameSizes(call)
  OBVIOUS
<1>5. size = [i \in 1..K |-> ByteSize(build_sig(c).Params[i])]
  BY <1>1, <1>2, <1>4 DEF FrameSizes
<1>6. PICK P : P = ParamPieces(c)
  OBVIOUS
<1>7. P = [i \in 1..K |-> Pieces(build_sig(c).Params[i])]
  BY <1>2, <1>6 DEF ParamPieces
<1>8. /\ f.args \in [1..K -> Fours]
      /\ f.avalue \in Fours /\ f.ret \in Fours /\ f.size \in Fours
      /\ \A i \in 1..K : f.args[i] + ByteSize(build_sig(c).Params[i]) <= f.avalue
      /\ \A i, j \in 1..K : i < j => f.args[i] + ByteSize(build_sig(c).Params[i]) <= f.args[j]
      /\ f.avalue + 4 * K <= f.ret /\ f.ret <= f.size
  BY <1>2, <1>3, ClosureFrameOK
<1>9. PICK e \in Fours : e = Entered(call)
  BY SixteensAreFours DEF CallOK
<1>10. e + f.avalue + 4 * K <= call.base
  <2>1. PICK b \in Nat : b = call.base
    BY CallBounds
  <2>2. PICK s \in Nat : s = call.saved /\ s = b
    BY <1>1, <2>1 DEF CallOK
  <2>3. PICK v \in Nat : v = f.avalue
    BY <1>8 DEF Fours
  <2>4. PICK r \in Nat : r = f.ret
    BY <1>8 DEF Fours
  <2>5. PICK z \in Nat : z = f.size
    BY <1>8 DEF Fours
  <2>6. e = s - z /\ e \in Nat
    BY <1>1, <1>3, <1>9, <2>2, <2>5 DEF Entered, Fours
  <2>7. v + 4 * K <= r /\ r <= z
    BY <1>8, <2>3, <2>4, <2>5
  <2>8. e + v + 4 * K <= b
    BY <2>2, <2>6, <2>7
  <2> QED
    BY <2>1, <2>3, <2>8
<1>11. ASSUME NEW j \in 1..K
      PROVE  /\ size[j] \in Fours /\ GoodPieces(P[j], 16)
             /\ SizesKept(c) => GoodPieces(P[j], size[j])
  <2>2. PICK t \in CTypes : t = c.args[j]
    BY <1>2, CifOK
  <2>3. PICK p \in PTypes : p = encode_type(t)
    BY EncodedType
  <2>4. P[j] = Pieces(p) /\ size[j] = ByteSize(p)
    <3>1. build_sig(c).Params[j] = encode_type(t)
      BY <1>2, <2>2, SigOK
    <3> QED
      BY <1>5, <1>7, <2>3, <3>1
  <2>5. GoodPieces(Pieces(p), 16) /\ (ByteSize(p) = CSize(t) => GoodPieces(Pieces(p), ByteSize(p)))
    BY <2>3, PieceEnds
  <2>6. ByteSize(p) \in Fours
    BY PValue
  <2>7. SizesKept(c) => ByteSize(p) = CSize(t)
    <3>1. DOMAIN c.args = 1..K
      BY <1>2, CifOK
    <3> QED
      BY <2>2, <2>3, <3>1, KeptSizes
  <2> QED
    BY <2>4, <2>5, <2>6, <2>7
<1>12. size \in [1..K -> Fours]
  BY <1>5, <1>11
<1>13. \A j \in 1..K : f.args[j] + size[j] <= f.avalue
  BY <1>5, <1>8
<1>14. \A i, j \in 1..K : i < j => f.args[i] + size[i] <= f.args[j]
  BY <1>5, <1>8
<1>15. f.args \in [1..K -> Fours] /\ f.avalue \in Fours
  BY <1>8
<1> HIDE <1>5, <1>7, <1>8
<1> QED
  BY <1>1, <1>2, <1>3, <1>4, <1>6, <1>9, <1>10, <1>11, <1>12, <1>13, <1>14, <1>15

\* The pointers end where their array does.
LEMMA PointersBelow ==
  ASSUME NEW stores, NEW M \in Nat, NEW K \in Nat, NEW P, NEW off, NEW frame \in Nat, NEW avalue \in Nat, NEW at,
         NEW lo \in Nat, frame + avalue + 4 * K <= lo,
         Everything(M, K, P, off), PointsFrom(stores, M, K, frame, avalue, at)
  PROVE  OthersBelow(stores, M + K, K, P, off, lo)
<1>1. ASSUME NEW s \in 1..(M + K)
      PROVE  \/ \E j \in 1..K : \E n \in 1..Len(P[j]) : s = off[j - 1] + n
             \/ Len(stores[s].words) \in Nat /\ stores[s].at + 4 * Len(stores[s].words) <= lo
  <2>1. CASE s \in 1..M
    BY <2>1 DEF Everything
  <2>2. CASE s \notin 1..M
    <3>1. PICK i \in 1..K : s = M + i
      <4>1. s - M \in 1..K /\ s = M + (s - M)
        BY <2>2
      <4> QED
        BY <4>1
    <3>2. stores[s].at = frame + avalue + 4 * (i - 1) /\ Len(stores[s].words) = 1
      <4>1. stores[s] = [at |-> frame + avalue + 4 * (i - 1), words |-> <<frame + at[i]>>]
        BY <3>1 DEF PointsFrom
      <4>2. Len(<<frame + at[i]>>) = 1
        OBVIOUS
      <4> QED
        BY <4>1, <4>2
    <3>3. frame + avalue + 4 * (i - 1) + 4 * 1 <= lo
      OBVIOUS
    <3> QED
      BY <3>2, <3>3
  <2> QED
    BY <2>1, <2>2
<1> QED
  BY <1>1 DEF OthersBelow

\* The frame changes nothing above the call, and nothing above itself if the sizes are kept.
LEMMA FrameBelow ==
  ASSUME NEW call, CallOK(call), call.target # "c", NEW m, Pointed(m, call), NEW after,
         Makes(call, m, after)
  PROVE  /\ Agree(m, after, Before(call))
         /\ SizesKept(call.cif) => Agree(m, after, call.base)
<1>1. PICK stores : Frames(m, call, after, stores)
  BY Framing
<1>2. PICK K \in Nat : K = Len(call.cif.args)
  BY FrameAt
<1>3. PICK P : P = ParamPieces(call.cif)
  OBVIOUS
<1>4. PICK at \in [1..K -> Fours] : at = FrameOf(call).args
  BY <1>2, FrameAt
<1>5. PICK size \in [1..K -> Fours] : size = FrameSizes(call)
  BY <1>2, FrameAt
<1>6. PICK v \in Nat : v = FrameOf(call).avalue
  BY FrameAt DEF Fours
<1>7. PICK V : V = FrameReads(m, call)
  OBVIOUS
<1>8. PICK e \in Fours : e = Entered(call) /\ e \in Nat
  BY FrameAt, CallBounds
<1>9. PICK base \in Nat : base = call.base /\ e + v + 4 * K <= base
  BY <1>2, <1>6, <1>8, CallBounds, FrameAt
<1>10. PICK W : W = Words(m)
  OBVIOUS
<1>11. FrameStores(stores, K, P, at, e, v, V, W)
  BY <1>1, <1>2, <1>3, <1>4, <1>6, <1>7, <1>8, <1>10 DEF Frames
<1>12. PICK M, off : /\ M \in Nat
                     /\ Delivers(stores, M + K, K, P, at, e, off, V, W, e + v)
                     /\ Everything(M, K, P, off) /\ PointsFrom(stores, M, K, e, v, at)
  BY <1>11 DEF FrameStores
<1>13. DOMAIN m = Addresses /\ after = StoreAll(m, stores)
  BY <1>1 DEF Pointed, Frames
<1>14. PICK N \in Nat : N = M + K
  BY <1>12
<1>15. \A j \in 1..K : /\ at[j] + size[j] <= v /\ GoodPieces(P[j], 16)
                       /\ SizesKept(call.cif) => GoodPieces(P[j], size[j])
  BY <1>2, <1>3, <1>4, <1>5, <1>6, FrameAt
<1>16. Delivers(stores, N, K, P, at, e, off, V, W, e + v)
  BY <1>12, <1>14
<1>17. SizesKept(call.cif) => Agree(m, after, base)
  <2> HAVE SizesKept(call.cif)
  <2>1. \A j \in 1..K : GoodPieces(P[j], size[j]) /\ e + at[j] + size[j] <= base
    <3> TAKE j \in 1..K
    <3>1. PICK a \in Nat : a = at[j]
      BY DEF Fours
    <3>2. PICK s \in Nat : s = size[j] /\ a + s <= v
      BY <1>15, <3>1 DEF Fours
    <3>3. e + a + s <= base
      <4>1. e \in Nat /\ v \in Nat /\ base \in Nat /\ a \in Nat /\ s \in Nat /\ K \in Nat
        BY <1>8
      <4>2. e + v + 4 * K <= base /\ a + s <= v
        BY <1>9, <3>2
      <4> QED
        BY <4>1, <4>2
    <3> QED
      BY <1>15, <3>1, <3>2, <3>3
  <2>2. PiecesBelow(K, P, size, at, e, base)
    BY <2>1 DEF PiecesBelow
  <2>3. OthersBelow(stores, N, K, P, off, base)
    BY <1>8, <1>9, <1>12, <1>14, PointersBelow
  <2>4. Agree(m, StoreAll(m, stores), base)
    BY <1>13, <1>16, <2>2, <2>3, DeliversBelow
  <2> QED
    BY <1>13, <2>4
<1>18. PICK before \in Nat : before = Before(call) /\ base + 16 <= before
  BY <1>9, RoomAbove
<1>19. Agree(m, after, before)
  <2>0. 16 \in Fours
    BY DEF Fours
  <2>1. PICK wide \in [1..K -> Fours] : wide = [j \in 1..K |-> 16]
    BY <2>0
  <2>2. \A j \in 1..K : GoodPieces(P[j], wide[j]) /\ e + at[j] + wide[j] <= before
    <3> TAKE j \in 1..K
    <3>1. PICK a \in Nat : a = at[j]
      BY DEF Fours
    <3>2. PICK s \in Nat : s = size[j] /\ a + s <= v
      BY <1>15, <3>1 DEF Fours
    <3>3. e + a + 16 <= before
      <4>1. e \in Nat /\ v \in Nat /\ base \in Nat /\ before \in Nat /\ a \in Nat /\ s \in Nat /\ K \in Nat
        BY <1>8
      <4>2. e + v + 4 * K <= base /\ base + 16 <= before /\ a + s <= v
        BY <1>9, <1>18, <3>2
      <4> QED
        BY <4>1, <4>2
    <3>4. wide[j] = 16
      BY <2>1
    <3> QED
      BY <1>15, <3>1, <3>3, <3>4
  <2>3. PiecesBelow(K, P, wide, at, e, before)
    BY <2>2 DEF PiecesBelow
  <2>4. e + v + 4 * K <= before
    <3>1. e \in Nat /\ v \in Nat /\ base \in Nat /\ before \in Nat /\ K \in Nat
      BY <1>8
    <3> QED
      BY <1>9, <1>18, <3>1
  <2>5. OthersBelow(stores, N, K, P, off, before)
    BY <1>8, <1>12, <1>14, <2>4, PointersBelow
  <2>6. Agree(m, StoreAll(m, stores), before)
    BY <1>13, <1>16, <2>3, <2>5, DeliversBelow
  <2> QED
    BY <1>13, <2>6
<1> QED
  BY <1>9, <1>17, <1>18, <1>19

\* The stores before the pointers end below them.
LEMMA PointersAbove ==
  ASSUME NEW stores, NEW M \in Nat, NEW K \in Nat, NEW at, NEW size, NEW P, NEW b \in Fours, NEW off, NEW V,
         NEW W, NEW v \in Nat, NEW N, N = M + K, NEW p, p = b + v, NEW w, w = [i \in 1..K |-> b + at[i]],
         Delivers(stores, N, K, P, at, b, off, V, W, p),
         Laid(K, P, at, size, v), Everything(M, K, P, off), PointsFrom(stores, M, K, b, v, at)
  PROVE  Pointers(stores, M, K, p, w)
<1>2. ASSUME NEW s \in 1..M
      PROVE  /\ stores[s].at \in Nat /\ Len(stores[s].words) \in Nat
             /\ stores[s].at + 4 * Len(stores[s].words) <= p
  <2>0. s \in 1..N
    OBVIOUS
  <2>1. PICK j \in 1..K : \E n \in 1..Len(P[j]) : s = off[j - 1] + n
    BY DEF Everything
  <2>2. PICK n \in 1..Len(P[j]) : s = off[j - 1] + n
    BY <2>1
  <2>3. PICK ps : ps = P[j] /\ GoodPieces(ps, size[j])
    BY DEF Laid
  <2>4. /\ ps \in Seq([at : Fours, size : Fours]) /\ n \in 1..Len(ps)
        /\ ps[n].at + ps[n].size <= size[j]
    BY <2>2, <2>3 DEF GoodPieces
  <2>5. PICK q \in Nat : q = ps[n].at
    BY <2>4, PieceOK DEF Fours
  <2>6. PICK z \in Nat : z = ps[n].size
    BY <2>4, PieceOK DEF Fours
  <2>7. PICK a \in Nat : a = at[j]
    BY DEF Laid, Fours
  <2>8. PICK t \in Nat : t = size[j] /\ a + t <= v
    BY <2>7 DEF Laid, Fours
  <2>9. PICK u : u = V[j][n]
    OBVIOUS
  <2>10. /\ stores[off[j - 1] + n] = [at |-> b + at[j] + P[j][n].at, words |-> V[j][n]]
         /\ V[j][n] \in Seq(W) /\ 4 * Len(V[j][n]) = P[j][n].size
    BY DEF Delivers
  <2>11. stores[s].at = b + a + q /\ stores[s].words = u /\ u \in Seq(W) /\ 4 * Len(u) = z
    BY <2>2, <2>3, <2>5, <2>6, <2>7, <2>9, <2>10
  <2>12. b \in Nat /\ q + z <= t
    BY <2>4, <2>5, <2>6, <2>8 DEF Fours
  <2>13. PICK l \in Nat : l = Len(u)
    BY <2>11
  <2>14. 4 * l = z
    BY <2>11, <2>13
  <2>15. b + a + q \in Nat /\ b + a + q + 4 * l <= b + v
    BY <2>8, <2>12, <2>14
  <2> QED
    BY <2>11, <2>13, <2>15
<1>5. \A i \in 1..K : stores[M + i] = [at |-> p + 4 * (i - 1), words |-> <<w[i]>>]
  BY DEF PointsFrom
<1>6. DOMAIN stores = 1..(M + K)
  BY DEF Delivers
<1> QED
  BY <1>2, <1>5, <1>6 DEF Pointers

\* What is put is found, by name.
LEMMA PointersPut ==
  ASSUME NEW m, DOMAIN m = Addresses, NEW M \in Nat, NEW n \in Nat, NEW stores,
         NEW p \in Fours, p + 4 * n <= StackTop, NEW v, Pointers(stores, M, n, p, v)
  PROVE  PointedAt(StoreAll(m, stores), p, v, n)
BY PointerStored DEF PointedAt

\* A closure's function finds its arguments through the pointers.
LEMMA FrameMade ==
  ASSUME NEW call, CallOK(call), call.target # "c", SizesKept(call.cif), NEW m, Pointed(m, call),
         NEW after, Makes(call, m, after)
  PROVE  InFrame(after, call)
<1>1. PICK stores : Frames(m, call, after, stores)
  BY Framing
<1>2. PICK K \in Nat : K = Len(call.cif.args)
  BY FrameAt
<1>3. PICK P : P = ParamPieces(call.cif)
  OBVIOUS
<1>4. PICK at \in [1..K -> Fours] : at = FrameOf(call).args
  BY <1>2, FrameAt
<1>5. PICK size \in [1..K -> Fours] : size = FrameSizes(call)
  BY <1>2, FrameAt
<1>6. PICK v \in Fours : v = FrameOf(call).avalue /\ v \in Nat
  <2>1. FrameOf(call).avalue \in Fours
    BY FrameAt
  <2> QED
    BY <2>1 DEF Fours
<1>7. PICK V : V = FrameReads(m, call)
  OBVIOUS
<1>8. PICK e \in Fours : e = Entered(call) /\ e \in Nat
  BY FrameAt, CallBounds
<1>9. e + v + 4 * K <= StackTop
  <2>1. PICK base \in Nat : base = call.base
    BY CallBounds
  <2>2. PICK before \in Nat : before = Before(call) /\ base <= before /\ before <= StackTop
    BY <2>1, CallBounds
  <2>3. e + v + 4 * K <= base
    BY <1>2, <1>6, <1>8, <2>1, FrameAt
  <2>4. PICK top \in Nat : top = StackTop
    BY BoundsAssumption
  <2>5. e + v + 4 * K <= before
    BY <1>6, <1>8, <2>2, <2>3
  <2>6. e + v + 4 * K <= top
    BY <1>6, <1>8, <2>2, <2>4, <2>5
  <2> QED
    BY <2>4, <2>6
<1>10. PICK W : W = Words(m)
  OBVIOUS
<1>11. FrameStores(stores, K, P, at, e, v, V, W)
  BY <1>1, <1>2, <1>3, <1>4, <1>6, <1>7, <1>8, <1>10 DEF Frames
<1>12. PICK M, off : /\ M \in Nat
                     /\ Delivers(stores, M + K, K, P, at, e, off, V, W, e + v)
                     /\ Everything(M, K, P, off) /\ PointsFrom(stores, M, K, e, v, at)
  BY <1>11 DEF FrameStores
<1>13. DOMAIN m = Addresses /\ after = StoreAll(m, stores)
  BY <1>1 DEF Pointed, Frames
<1>14. Laid(K, P, at, size, v)
  <2>1. \A j \in 1..K : at[j] + size[j] <= v /\ GoodPieces(P[j], size[j])
    BY <1>2, <1>3, <1>4, <1>5, <1>6, FrameAt
  <2>2. \A i, j \in 1..K : i < j => at[i] + size[i] <= at[j]
    BY <1>2, <1>4, <1>5, FrameAt
  <2> QED
    BY <2>1, <2>2 DEF Laid
<1>15. PICK p \in Fours : p = e + v /\ p \in Nat
  <2>1. e + v \in Fours
    BY FoursAdd
  <2> QED
    BY <2>1 DEF Fours
<1>16. \A i \in 1..K : after[p + 4 * (i - 1)] = e + at[i]
  <2>1. PICK w : w = [i \in 1..K |-> e + at[i]]
    OBVIOUS
  <2>2. Pointers(stores, M, K, p, w)
    <3>1. PICK N : N = M + K
      OBVIOUS
    <3>2. Delivers(stores, N, K, P, at, e, off, V, W, p)
      BY <1>12, <1>15, <3>1
    <3> QED
      BY <1>6, <1>12, <1>14, <1>15, <2>1, <3>1, <3>2, PointersAbove
  <2>3. p + 4 * K <= StackTop
    BY <1>9, <1>15
  <2>4. PointedAt(StoreAll(m, stores), p, w, K)
    BY <1>12, <1>13, <2>2, <2>3, PointersPut
  <2> QED
    BY <1>13, <2>1, <2>4 DEF PointedAt
<1>17. \A j \in 1..K : Read(after, e + at[j], P[j]) = [n \in 1..Len(P[j]) |-> V[j][n]]
  <2>1. e + v <= StackTop
    <3>1. PICK top \in Nat : top = StackTop
      BY BoundsAssumption
    <3>2. e + v <= top
      BY <1>6, <1>8, <1>9, <3>1
    <3> QED
      BY <3>1, <3>2
  <2>2. PICK N \in Nat : N = M + K
    BY <1>12
  <2>3. Delivers(stores, N, K, P, at, e, off, V, W, e + v)
    BY <1>12, <2>2
  <2>4. ReadsBack(StoreAll(m, stores), K, P, at, e, V)
    BY <1>6, <1>13, <1>14, <2>1, <2>3, Delivered
  <2> QED
    BY <1>13, <2>4 DEF ReadsBack
<1>18. call.funAvalue = p
  BY <1>6, <1>8, <1>15 DEF Makes, FrameOf
<1>19. ASSUME NEW i \in 1..K
       PROVE  Framed(after, call, i)
  <2>1. i \in 1..Len(call.cif.args)
    BY <1>2
  <2>2. P[i] = CPieces(call.cif.args[i])
    <3>1. P[i] = Pieces(build_sig(call.cif).Params[i])
      BY <1>3, <2>1 DEF ParamPieces
    <3> QED
      BY <2>1, <3>1, GoodArgs DEF Good
  <2>3. V[i] = Passed(m, call, i)
    <3>1. V[i] = Read(m, At(call)[i], P[i])
      BY <1>2, <1>3, <1>7 DEF FrameReads, ArgReads
    <3>2. At(call)[i] = call.base + CallerFrame(call.cif).args[i]
      BY <2>1 DEF At
    <3> QED
      BY <2>2, <3>1, <3>2 DEF Passed
  <2>4. V[i] = [n \in 1..Len(P[i]) |-> V[i][n]]
    <3>1. PICK a \in Fours : a = At(call)[i]
      BY <2>1, AtOK
    <3>2. PICK q \in Seq([at : Fours, size : Fours]) : q = P[i]
      BY <1>14 DEF Laid, GoodPieces
    <3>3. Read(m, a, q) = [n \in 1..Len(q) |-> Read(m, a, q)[n]]
      BY ReadWords
    <3>4. V[i] = Read(m, a, q)
      BY <1>2, <1>3, <1>7, <3>1, <3>2 DEF FrameReads, ArgReads
    <3> QED
      BY <3>2, <3>3, <3>4
  <2>5. Read(after, e + at[i], P[i]) = Passed(m, call, i)
    BY <1>17, <2>3, <2>4
  <2>6. Passed(after, call, i) = Passed(m, call, i)
    <3>1. PICK base \in Nat : base = call.base /\ base <= call.base
      BY CallBounds
    <3>2. Agree(m, after, base)
      BY <3>1, FrameBelow
    <3>3. \A x \in 1..Len(call.cif.args) : Passed(after, call, x) = Passed(m, call, x)
      BY <3>1, <3>2, PassedSame
    <3> QED
      BY <2>1, <3>3
  <2>7. after[call.funAvalue + 4 * (i - 1)] = e + at[i]
    BY <1>16, <1>18
  <2>8. e + at[i] = Entered(call) + ClosureFrame(build_sig(call.cif)).args[i]
    BY <1>4, <1>8 DEF FrameOf
  <2> QED
    BY <2>2, <2>5, <2>6, <2>7, <2>8 DEF Framed
<1>20. call.funAvalue = Entered(call) + ClosureFrame(build_sig(call.cif)).avalue
  BY DEF Makes
<1> QED
  BY <1>2, <1>19, <1>20 DEF InFrame

-----------------------------------------------------------------------------
(* Calls that are made.                                                   *)

\* The trampolines of a call change nothing above it, and nothing above their own frames
\* if they are to be relied on.
LEMMA MadeBelow ==
  ASSUME NEW call, CallOK(call), NEW m, Pointed(m, call), NEW after, Makes(call, m, after)
  PROVE  /\ Agree(m, after, Before(call))
         /\ Good(call) => Agree(m, after, call.base)
<1>1. CASE call.target # "c"
  BY <1>1, FrameBelow DEF Good
<1>2. CASE call.target = "c" /\ call.cif.varargs
  BY <1>2, PackedBelow DEF Good
<1>3. CASE call.target = "c" /\ ~call.cif.varargs
  <2>1. PICK c \in Cifs : c = call.cif
    BY DEF CallOK
  <2>2. ~build_sig(c).Varargs
    BY <1>3, <2>1, SigOK
  <2>3. Tramp(m, call).mem = m
    BY <2>1, <2>2 DEF Tramp, CallTrampoline
  <2>4. after = m
    BY <1>3, <2>3 DEF Makes
  <2> QED
    BY <2>4 DEF Agree
<1> QED
  BY <1>1, <1>2, <1>3

\* The target of a call to be relied on has the arguments when it is entered.
LEMMA ArgsMade ==
  ASSUME NEW call, CallOK(call), Good(call), NEW m, Pointed(m, call), NEW after, Makes(call, m, after)
  PROVE  HasArgs(after, call)
<1>1. CASE call.target # "c"
  BY <1>1, FrameMade DEF Good, HasArgs
<1>2. CASE call.target = "c"
  <2>1. InOperands(m, call)
    BY OperandsMade
  <2>2. PICK lo \in Nat : lo = call.base /\ lo <= call.base
    BY CallBounds
  <2>3. Agree(m, after, lo)
    BY <2>2, MadeBelow
  <2>4. InOperands(after, call)
    BY <2>1, <2>2, <2>3, KeepsOperands
  <2>5. call.cif.varargs => InBuffer(after, call)
    BY <1>2, BufferMade DEF Good
  <2> QED
    BY <1>2, <2>4, <2>5 DEF HasArgs
<1> QED
  BY <1>1, <1>2

\* What a call adds.
LEMMA CallAdds ==
  ASSUME StackInv, NEW n \in Nat, n = Len(calls), NEW c \in Cifs, NEW k \in Closures \union {"c"},
         Dispatch(c, k)
  PROVE  \E call, m :
           /\ calls' = Append(calls, call)
           /\ m = StoreAll(mem, CallerStores(call.cif, call.base, n + 1))
           /\ Makes(call, m, mem')
<1> DEFINE sig    == build_sig(c)
           depth  == Len(calls) + 1
           base   == sp - CallerFrame(c).size
           avalue == base + CallerFrame(c).avalue
           rvalue == base + CallerFrame(c).rvalue
           m      == StoreAll(mem, CallerStores(c, base, depth))
           out    == CallTrampoline(sig, m, base, avalue, rvalue)
           frame  == out.sp - ClosureFrame(sig).size
           fun    == IF IsAggregate(sig.Return) THEN out.operands[1][1] ELSE frame + ClosureFrame(sig).ret
           call   == [cif |-> c, target |-> k, base |-> base, operands |-> out.operands,
                      saved |-> out.sp, avalue |-> avalue, rvalue |-> rvalue,
                      funAvalue |-> frame + ClosureFrame(sig).avalue,
                      funRvalue |-> fun, state |-> "running"]
<1>1. /\ calls' = Append(calls, call)
      /\ mem' = IF k = "c" THEN out.mem ELSE StoreAll(out.mem, ClosureStores(sig, out.operands, frame))
  BY Zenon DEF Dispatch
<1> HIDE DEF fun, out, m
<1>2. /\ call.cif = c /\ call.target = k /\ call.base = base /\ call.operands = out.operands
      /\ call.saved = out.sp /\ call.funAvalue = frame + ClosureFrame(sig).avalue
  OBVIOUS
<1> HIDE DEF call
<1>3. Tramp(m, call) = out
  BY <1>2 DEF Tramp, out
<1>4. k # "c" => Entered(call) = frame
  BY <1>2 DEF Entered
<1>5. Makes(call, m, mem')
  <2>1. call.operands = Tramp(m, call).operands /\ call.saved = Tramp(m, call).sp
    BY <1>2, <1>3
  <2>2. call.target # "c" => call.funAvalue = Entered(call) + ClosureFrame(build_sig(call.cif)).avalue
    BY <1>2, <1>4
  <2>3. mem' = IF call.target = "c" THEN Tramp(m, call).mem
               ELSE StoreAll(Tramp(m, call).mem,
                             ClosureStores(build_sig(call.cif), call.operands, Entered(call)))
    BY <1>1, <1>2, <1>3, <1>4
  <2> QED
    BY <2>1, <2>2, <2>3 DEF Makes
<1>6. m = StoreAll(mem, CallerStores(call.cif, call.base, n + 1))
  BY <1>2 DEF m
<1> QED
  BY <1>1, <1>5, <1>6

\* A call leaves what the calls it is made from have, and its own target has its arguments.
LEMMA ArgsGrow ==
  ASSUME StackInv, ArgsStay, NEW c \in Cifs, NEW k \in Closures \union {"c"}, Dispatch(c, k)
  PROVE  ArgsStay'
<1>1. CallsNest /\ CallsNest' /\ DOMAIN mem = Addresses
  BY StackGrows DEF StackInv, MemOK
<1>2. PICK S : calls \in Seq(S)
  BY <1>1 DEF CallsNest
<1>3. PICK n \in Nat : n = Len(calls)
  BY <1>2
<1>4. PICK call, m : /\ calls' = Append(calls, call)
                     /\ m = StoreAll(mem, CallerStores(call.cif, call.base, n + 1))
                     /\ Makes(call, m, mem')
  BY <1>3, CallAdds
<1>5. /\ Len(calls') = n + 1 /\ calls'[n + 1] = call
      /\ \A d \in 1..n : calls'[d] = calls[d]
  <2>1. calls \in Seq(S \union {call}) /\ call \in S \union {call}
    BY <1>2
  <2> QED
    BY <1>3, <1>4, <2>1
<1>6. n + 1 \in 1..(n + 1)
  OBVIOUS
<1>7. CallOK(call)
  <2>1. \A d \in 1..Len(calls') : CallOK(calls'[d])
    BY <1>1 DEF CallsNest, CallOK, Before, Entered
  <2> QED
    BY <1>5, <1>6, <2>1
<1>8. Before(call) = IF n = 0 THEN StackTop ELSE Entered(calls[n])
  <2>1. \A d \in 1..Len(calls') :
          Before(calls'[d]) = IF d = 1 THEN StackTop ELSE Entered(calls'[d - 1])
    BY <1>1 DEF CallsNest, Before, Entered
  <2>2. Before(call) = IF n + 1 = 1 THEN StackTop ELSE Entered(calls'[(n + 1) - 1])
    BY <1>5, <1>6, <2>1
  <2>3. (n + 1 = 1 <=> n = 0) /\ (n + 1) - 1 = n
    OBVIOUS
  <2>4. n # 0 => calls'[n] = calls[n]
    <3>1. n # 0 => n \in 1..n
      OBVIOUS
    <3> QED
      BY <1>5, <3>1
  <2> QED
    BY <2>2, <2>3, <2>4
<1>9. PICK after : after = mem'
  OBVIOUS
<1>10. PICK depth : depth = n + 1
  OBVIOUS
<1>11. Pointed(m, call) /\ Agree(mem, m, Before(call))
  BY <1>1, <1>4, <1>7, <1>10, CallerPuts
<1>12. Makes(call, m, after)
  BY <1>4, <1>9
<1>13. Agree(m, after, Before(call)) /\ (Good(call) => HasArgs(after, call))
  BY <1>7, <1>11, <1>12, MadeBelow, ArgsMade
<1>14. PICK lo \in Nat : lo = Before(call)
  BY <1>7, CallBounds
<1>15. Agree(mem, after, lo)
  BY <1>11, <1>13, <1>14, AgreeTwice
<1>16. ASSUME NEW d \in 1..n, calls[d].state = "running", Good(calls[d])
       PROVE  HasArgs(after, calls[d])
  <2>1. n # 0 /\ n \in 1..n
    OBVIOUS
  <2>2. PICK e \in Nat : e = Entered(calls[d])
    BY <1>1, <1>3, CallBounds DEF CallsNest
  <2>3. lo = Entered(calls[n])
    BY <1>8, <1>14, <2>1
  <2>4. lo <= e
    <3>1. CASE d = n
      BY <2>2, <2>3, <3>1
    <3>2. CASE d # n
      <4>1. d < n
        BY <3>2
      <4>2. Before(calls[n]) <= Entered(calls[d])
        BY <1>1, <1>3, <2>1, <4>1, CallsBelow
      <4>3. PICK b \in Nat : b = Before(calls[n]) /\ lo <= b
        <5>1. CallOK(calls[n])
          BY <1>1, <1>3, <2>1 DEF CallsNest
        <5>2. PICK b \in Nat : b = Before(calls[n])
          BY <5>1, CallBounds
        <5>3. PICK s \in Nat : s = calls[n].saved /\ lo <= s
          BY <2>3, <5>1, CallBounds
        <5>4. PICK x \in Nat : x = calls[n].base /\ s <= x /\ x <= b
          BY <5>1, <5>2, <5>3, CallBounds
        <5> QED
          BY <5>2, <5>3, <5>4
      <4> QED
        BY <2>2, <4>2, <4>3
    <3> QED
      BY <3>1, <3>2
  <2>5. lo <= Entered(calls[d])
    BY <2>2, <2>4
  <2> QED
    BY <1>1, <1>3, <1>15, <1>16, <2>5, KeptOutside
<1>17. ASSUME NEW d \in 1..(n + 1), calls'[d].state = "running", Good(calls'[d])
       PROVE  HasArgs(after, calls'[d])
  <2>1. CASE d \in 1..n
    BY <1>5, <1>16, <1>17, <2>1
  <2>2. CASE d \notin 1..n
    <3>1. d = n + 1
      BY <2>2
    <3> QED
      BY <1>5, <1>13, <1>17, <3>1
  <2> QED
    BY <2>1, <2>2
<1> QED
  BY <1>5, <1>9, <1>17 DEF ArgsStay

-----------------------------------------------------------------------------
(* Every step.                                                            *)

\* No other step reads or writes a frame.
LEMMA ArgsStutter == ArgsStay /\ UNCHANGED stackVars => ArgsStay'
BY DEF ArgsStay, stackVars

\* Every step leaves the targets of the calls in progress their arguments.
LEMMA ArgsStep == StackInv /\ ArgsStay /\ [Next]_vars => ArgsStay'
<1> SUFFICES ASSUME StackInv, ArgsStay, [Next]_vars PROVE ArgsStay'
  OBVIOUS
<1>1. CASE TearDown /\ FfiGone
  <2>1. calls' = <<>>
    BY <1>1 DEF FfiGone
  <2>2. Len(calls') = 0
    BY <2>1
  <2> QED
    BY <2>2 DEF ArgsStay
<1>2. CASE (Build \/ GoesWithout \/ Fail \/ Release \/ Ended) /\ UNCHANGED ffiVars
  BY <1>2, ArgsStutter DEF ffiVars, stackVars
<1>3. CASE FfiNext
  <2>1. CASE \E sig \in Sigs, works \in BOOLEAN : PrepTrampoline(sig, works)
    BY <2>1, ArgsStutter DEF PrepTrampoline, stackVars
  <2>2. CASE \E k \in Closures : ClosureAlloc(k)
    BY <2>2, ArgsStutter DEF ClosureAlloc, stackVars
  <2>3. CASE \E k \in Closures, c \in Cifs, works \in BOOLEAN : PrepClosure(k, c, works)
    BY <2>3, ArgsStutter DEF PrepClosure, stackVars
  <2>4. CASE \E c \in Cifs, k \in Closures \union {"c"} : Dispatch(c, k)
    BY <2>4, ArgsGrow
  <2>5. CASE TargetReturns
    BY <2>5, ArgsReturn
  <2>6. CASE CallerGoesOn
    BY <2>6, ArgsPop
  <2>7. QED
    BY <1>3, <2>1, <2>2, <2>3, <2>4, <2>5, <2>6 DEF FfiNext
<1>4. CASE UNCHANGED vars
  BY <1>4, ArgsStutter DEF vars, ffiVars, stackVars
<1>5. QED
  BY <1>1, <1>2, <1>3, <1>4 DEF Next

\* The target of every call in progress finds the arguments its caller sent, at every
\* depth and whatever calls are made from it: a C function in its operands and, by va_arg,
\* in the variadic buffer, a closure's function through the pointers in its trampoline's
\* frame.  Not where the descriptor misstates a size, nor where C aligns a variadic long
\* double to 16 and the buffer does not; structs are passed as the bridge says they are.
THEOREM ArgumentsReachTargets == Spec => []TargetsGetArguments
<1>1. Init => StackInv /\ ArgsStay
  <2> SUFFICES ASSUME Init PROVE StackInv /\ ArgsStay
    OBVIOUS
  <2>1. StackInv
    BY StackStart DEF Init, FfiInit
  <2>2. calls = <<>>
    BY DEF Init, FfiInit
  <2>3. Len(calls) = 0
    BY <2>2
  <2> QED
    BY <2>1, <2>3 DEF ArgsStay
<1>2. StackInv /\ ArgsStay => TargetsGetArguments
  BY ArgsStayed DEF StackInv
<1>3. StackInv /\ ArgsStay /\ [Next]_vars => (StackInv /\ ArgsStay)'
  BY StackStep, ArgsStep
<1>4. QED
  BY <1>1, <1>2, <1>3, PTL DEF Spec

-----------------------------------------------------------------------------
(* Boot and teardown.                                                      *)

EngineOwned == {"component", "dyld.fac", "libffi.fac"}

ParticleLayers ==
  {"instance", "libffi", "dyld", "kv", "signing", "oauth", "credentials", "logging", "world"}
MountLayers == {"temp.root", "temp.dir", "root"}
BaseLayers  == {"cache", "engine", "credentials.fac", "oauth.fac", "signing.fac", "kv.fac", "runtime"}
Layers == ParticleLayers \union MountLayers \union BaseLayers \union EngineOwned

\* The order in which layers go, whatever fails: each list of releases follows it.
Order(command, l) ==
  IF l = "instance" THEN 1
  ELSE IF l = "libffi" THEN 2
  ELSE IF l = "dyld" THEN 3
  ELSE IF l = "kv" THEN 4
  ELSE IF l = "signing" THEN 5
  ELSE IF l = "oauth" THEN 6
  ELSE IF l = "credentials" THEN 7
  ELSE IF l = "logging" THEN 8
  ELSE IF l = "world" THEN 9
  ELSE IF l = "temp.root" THEN 10
  ELSE IF l = "temp.dir" THEN 11
  ELSE IF l = "root" THEN 12
  ELSE IF l = "runtime" THEN 13
  ELSE IF l = "kv.fac" THEN (IF command = "boot" THEN 14 ELSE 18)
  ELSE IF l = "credentials.fac" THEN 15
  ELSE IF l = "oauth.fac" THEN 16
  ELSE IF l = "signing.fac" THEN 17
  ELSE IF l = "cache" THEN 20
  ELSE 19

Rank(l) == Order(program.command, l)

\* A list of layers in that order, and between which two places of it.
InTurn(s, lo, hi) ==
  /\ s \in Seq(Layers)
  /\ \A i, j \in DOMAIN s : i < j => Rank(s[i]) < Rank(s[j])
  /\ \A i \in DOMAIN s : lo <= Rank(s[i]) /\ Rank(s[i]) <= hi

\* Ranks are numbers, and only what the engine owns shares one.
LEMMA Ranks ==
  /\ \A l \in Layers : Rank(l) \in 1..20
  /\ \A l \in ParticleLayers : Rank(l) <= 9
  /\ \A l \in MountLayers : Rank(l) \in 10..12
  /\ \A l \in BaseLayers : Rank(l) >= 13
  /\ \A l \in EngineOwned \union {"engine"} : Rank(l) = 19
  /\ \A l \in Layers : Rank(l) = 20 <=> l = "cache"
BY SMTT(60) DEF Layers, ParticleLayers, MountLayers, BaseLayers, EngineOwned, Rank, Order

\* One list after the other, when the second one goes later.
LEMMA InTurnThen ==
  ASSUME NEW s, NEW t, NEW a \in Nat, NEW b \in Nat, NEW c \in Nat, NEW d \in Nat,
         InTurn(s, a, b), InTurn(t, c, d), a <= c, b < c, b <= d
  PROVE  InTurn(s \o t, a, d) /\ ToSet(s \o t) = ToSet(s) \union ToSet(t)
<1>1. s \in Seq(Layers) /\ t \in Seq(Layers) /\ s \o t \in Seq(Layers)
  BY DEF InTurn
<1>2. PICK n \in Nat, m \in Nat : n = Len(s) /\ m = Len(t) /\ Len(s \o t) = n + m
  BY <1>1
<1>3. /\ \A i \in 1..n : (s \o t)[i] = s[i]
      /\ \A i \in 1..m : (s \o t)[n + i] = t[i]
  BY <1>1, <1>2
<1>4. PICK u : u = s \o t
  OBVIOUS
<1>5. \A i \in 1..n : u[i] = s[i] /\ Rank(s[i]) \in a..b
  <2> SUFFICES ASSUME NEW i \in 1..n PROVE u[i] = s[i] /\ Rank(s[i]) \in a..b
    OBVIOUS
  <2>1. s[i] \in Layers /\ i \in DOMAIN s
    BY <1>1, <1>2
  <2>2. Rank(s[i]) \in Nat
    BY <2>1, Ranks
  <2> QED
    BY <2>1, <2>2, <1>3, <1>4 DEF InTurn
<1>6. \A i \in 1..m : u[n + i] = t[i] /\ Rank(t[i]) \in c..d
  <2> SUFFICES ASSUME NEW i \in 1..m PROVE u[n + i] = t[i] /\ Rank(t[i]) \in c..d
    OBVIOUS
  <2>1. t[i] \in Layers /\ i \in DOMAIN t
    BY <1>1, <1>2
  <2>2. Rank(t[i]) \in Nat
    BY <2>1, Ranks
  <2> QED
    <3>1. u[n + i] = t[i]
      BY <1>3, <1>4
    <3>2. c <= Rank(t[i]) /\ Rank(t[i]) <= d
      BY <2>1 DEF InTurn
    <3> QED
      BY <3>1, <3>2, <2>2
<1>7. \A i \in DOMAIN u : i \in 1..n \/ \E k \in 1..m : i = n + k
  <2>1. DOMAIN u = 1..(n + m)
    BY <1>1, <1>2, <1>4
  <2> SUFFICES ASSUME NEW i \in 1..(n + m), i \notin 1..n PROVE \E k \in 1..m : i = n + k
    BY <2>1
  <2>2. i - n \in 1..m /\ i = n + (i - n)
    OBVIOUS
  <2> QED
    BY <2>2
<1>8. \A i, j \in DOMAIN u : i < j => Rank(u[i]) < Rank(u[j])
  <2> SUFFICES ASSUME NEW i \in DOMAIN u, NEW j \in DOMAIN u, i < j PROVE Rank(u[i]) < Rank(u[j])
    OBVIOUS
  <2>1. CASE i \in 1..n /\ j \in 1..n
    BY <2>1, <1>1, <1>2, <1>5 DEF InTurn
  <2>2. CASE i \in 1..n /\ j \notin 1..n
    BY <2>2, <1>5, <1>6, <1>7
  <2>3. CASE i \notin 1..n
    <3>1. PICK k \in 1..m : i = n + k
      BY <2>3, <1>7
    <3>2. PICK q \in 1..m : j = n + q
      BY <2>3, <1>7, <3>1
    <3>3. k < q
      BY <3>1, <3>2
    <3>4. k \in DOMAIN t /\ q \in DOMAIN t
      BY <1>1, <1>2
    <3>5. Rank(t[k]) < Rank(t[q])
      BY <3>3, <3>4 DEF InTurn
    <3>6. u[n + k] = t[k] /\ u[n + q] = t[q]
      BY <1>6
    <3> QED
      BY <3>1, <3>2, <3>5, <3>6
  <2> QED
    BY <2>1, <2>2, <2>3
<1>9. \A i \in DOMAIN u : a <= Rank(u[i]) /\ Rank(u[i]) <= d
  BY <1>5, <1>6, <1>7
<1>10. ToSet(u) = ToSet(s) \union ToSet(t)
  <2>1. DOMAIN s = 1..n /\ DOMAIN t = 1..m /\ DOMAIN u = 1..(n + m)
    BY <1>1, <1>2, <1>4
  <2>2. \A i \in 1..m : n + i \in 1..(n + m)
    OBVIOUS
  <2>3. \A i \in 1..n : i \in 1..(n + m)
    OBVIOUS
  <2>4. ToSet(u) \subseteq ToSet(s) \union ToSet(t)
    <3> SUFFICES ASSUME NEW i \in DOMAIN u PROVE u[i] \in ToSet(s) \union ToSet(t)
      BY DEF ToSet
    <3>1. CASE i \in 1..n
      BY <3>1, <2>1, <1>5 DEF ToSet
    <3>2. CASE i \notin 1..n
      <4>1. PICK k \in 1..m : i = n + k
        BY <3>2, <1>7
      <4> QED
        BY <4>1, <2>1, <1>6 DEF ToSet
    <3> QED
      BY <3>1, <3>2
  <2>5. ToSet(s) \subseteq ToSet(u)
    BY <2>1, <2>3, <1>5 DEF ToSet
  <2>6. ToSet(t) \subseteq ToSet(u)
    BY <2>1, <2>2, <1>6 DEF ToSet
  <2> QED
    BY <2>4, <2>5, <2>6
<1> QED
  BY <1>1, <1>4, <1>8, <1>9, <1>10 DEF InTurn

\* Where the sequences begin only grows.
LEMMA OffsetsGrow ==
  ASSUME NEW ss, NEW n \in Nat, NEW off, NEW flat, NEW S, Flattens(ss, n, off, flat, S),
         \A i \in 1..n : Len(ss[i]) \in Nat
  PROVE  \A i, j \in 0..n : i <= j => off[i] <= off[j]
<1> DEFINE T == {j \in 0..n : \A i \in 0..n : i <= j => off[i] <= off[j]}
<1>1. off \in [0..n -> Nat] /\ \A i \in 1..n : off[i - 1] <= off[i]
  <2>1. off \in [0..n -> Nat] /\ \A i \in 1..n : off[i] = off[i - 1] + Len(ss[i])
    BY DEF Flattens
  <2>2. ASSUME NEW i \in 1..n PROVE off[i - 1] <= off[i]
    <3>1. off[i - 1] \in Nat /\ Len(ss[i]) \in Nat /\ off[i] = off[i - 1] + Len(ss[i])
      BY <2>1
    <3> QED
      BY <3>1
  <2> QED
    BY <2>1, <2>2
<1>2. 0 \in T
  BY <1>1
<1>3. ASSUME NEW j \in 0..n, j # n, j \in T PROVE j + 1 \in T
  <2>1. j + 1 \in 1..n /\ (j + 1) - 1 = j
    BY <1>3
  <2>2. off[j] <= off[j + 1] /\ off[j] \in Nat /\ off[j + 1] \in Nat
    BY <1>1, <2>1
  <2>3. ASSUME NEW i \in 0..n, i <= j + 1 PROVE off[i] <= off[j + 1]
    <3>1. CASE i = j + 1
      BY <3>1, <2>2
    <3>2. CASE i <= j
      <4>1. off[i] <= off[j] /\ off[i] \in Nat
        BY <1>1, <1>3, <3>2
      <4> QED
        BY <4>1, <2>2
    <3> QED
      BY <2>3, <3>1, <3>2
  <2> QED
    BY <2>1, <2>3
<1> HIDE DEF T
<1>4. \A j \in 0..n : j \in T
  BY <1>2, <1>3, Induction
<1> QED
  BY <1>4 DEF T

\* A list is between two places further apart, too.
LEMMA Wider ==
  ASSUME NEW s, NEW a \in Nat, NEW b \in Nat, NEW c \in Nat, NEW d \in Nat,
         InTurn(s, a, b), c <= a, b <= d
  PROVE  InTurn(s, c, d)
<1>1. \A i \in DOMAIN s : Rank(s[i]) \in Nat
  <2>1. \A i \in DOMAIN s : s[i] \in Layers
    BY DEF InTurn
  <2>2. \A l \in Layers : Rank(l) \in Nat
    BY Ranks
  <2> QED
    BY <2>1, <2>2
<1> QED
  BY <1>1 DEF InTurn

\* The held layers of a list keep their order.
LEMMA HeldInTurn ==
  ASSUME NEW s, NEW lo \in Nat, NEW hi \in Nat, InTurn(s, lo, hi)
  PROVE  InTurn(HeldOf(s), lo, hi) /\ ToSet(HeldOf(s)) = ToSet(s) \intersect held
<1>1. s \in Seq(Layers)
  BY DEF InTurn
<1>2. PICK n \in Nat : n = Len(s) /\ DOMAIN s = 1..n
  BY <1>1
<1>3. PICK ss : ss = [i \in DOMAIN s |-> When(s[i] \in held, <<s[i]>>)]
  OBVIOUS
<1>4. \A i \in 1..n : ss[i] = (IF s[i] \in held THEN <<s[i]>> ELSE <<>>) /\ s[i] \in Layers
  BY <1>1, <1>2, <1>3 DEF When
<1>5. ss \in Seq(Seq(Layers)) /\ Len(ss) = n
  <2>1. ASSUME NEW i \in 1..n PROVE ss[i] \in Seq(Layers)
    <3>1. s[i] \in Layers
      BY <1>4
    <3>2. <<s[i]>> \in Seq(Layers) /\ <<>> \in Seq(Layers)
      BY <3>1
    <3>3. CASE s[i] \in held
      BY <3>2, <3>3, <1>4
    <3>4. CASE s[i] \notin held
      BY <3>2, <3>4, <1>4
    <3> QED
      BY <3>3, <3>4
  <2>2. ss \in [1..n -> Seq(Layers)]
    BY <2>1, <1>2, <1>3
  <2> QED
    BY <2>2
<1>6. PICK flat : flat = HeldOf(s)
  OBVIOUS
<1>7. PICK off : Flattens(ss, n, off, flat, Layers)
  BY <1>3, <1>5, <1>6, Flat DEF HeldOf
<1>8. flat \in Seq(Layers) /\ DOMAIN flat = 1..off[n] /\ off \in [0..n -> Nat]
  BY <1>7 DEF Flattens
<1>9. \A i \in 1..n : /\ s[i] \in held => off[i] = off[i - 1] + 1 /\ flat[off[i]] = s[i]
                      /\ s[i] \notin held => off[i] = off[i - 1]
                      /\ off[i] <= off[n]
  <2> SUFFICES ASSUME NEW i \in 1..n
               PROVE  /\ s[i] \in held => off[i] = off[i - 1] + 1 /\ flat[off[i]] = s[i]
                      /\ s[i] \notin held => off[i] = off[i - 1]
                      /\ off[i] <= off[n]
    OBVIOUS
  <2>1. off[i] = off[i - 1] + Len(ss[i]) /\ off[i] <= off[n]
    BY <1>7 DEF Flattens
  <2>2. CASE s[i] \in held
    <3>1. ss[i] = <<s[i]>>
      BY <2>2, <1>4
    <3>2. Len(ss[i]) = 1 /\ ss[i][1] = s[i]
      BY <3>1
    <3>3. PICK k : k = 1
      OBVIOUS
    <3>4. k \in 1..Len(ss[i])
      BY <3>2, <3>3
    <3>5. flat[off[i - 1] + k] = ss[i][k]
      BY <3>4, <1>7 DEF Flattens
    <3> QED
      BY <2>1, <2>2, <3>2, <3>3, <3>5
  <2>3. CASE s[i] \notin held
    <3>1. ss[i] = <<>>
      BY <2>3, <1>4
    <3> QED
      BY <2>1, <2>3, <3>1, <1>8
  <2> QED
    BY <2>2, <2>3
<1>10. \A m \in 1..off[n] : \E i \in 1..n : m = off[i] /\ s[i] \in held /\ flat[m] = s[i]
  <2> SUFFICES ASSUME NEW m \in 1..off[n]
               PROVE  \E i \in 1..n : m = off[i] /\ s[i] \in held /\ flat[m] = s[i]
    OBVIOUS
  <2>1. PICK i \in 1..n : \E k \in 1..Len(ss[i]) : m = off[i - 1] + k
    BY <1>7 DEF Flattens
  <2>2. PICK k \in 1..Len(ss[i]) : m = off[i - 1] + k
    BY <2>1
  <2>3. s[i] \in held /\ k = 1
    <3>1. CASE s[i] \notin held
      <4>1. ss[i] = <<>>
        BY <3>1, <1>4
      <4> QED
        BY <4>1
    <3>2. CASE s[i] \in held
      <4>1. ss[i] = <<s[i]>>
        BY <3>2, <1>4
      <4>2. Len(ss[i]) = 1
        BY <4>1
      <4> QED
        BY <3>2, <4>2
    <3> QED
      BY <3>1, <3>2
  <2> QED
    BY <2>2, <2>3, <1>9
<1>11. \A i, j \in 0..n : i <= j => off[i] <= off[j]
  <2>1. \A i \in 1..n : Len(ss[i]) \in Nat
    BY <1>5
  <2> QED
    BY <2>1, <1>7, OffsetsGrow
<1>12. \A m, q \in 1..off[n] : m < q => Rank(flat[m]) < Rank(flat[q])
  <2> SUFFICES ASSUME NEW m \in 1..off[n], NEW q \in 1..off[n], m < q
               PROVE  Rank(flat[m]) < Rank(flat[q])
    OBVIOUS
  <2>1. PICK i \in 1..n : m = off[i] /\ s[i] \in held /\ flat[m] = s[i]
    BY <1>10
  <2>2. PICK j \in 1..n : q = off[j] /\ s[j] \in held /\ flat[q] = s[j]
    BY <1>10
  <2>3. i < j
    BY <2>1, <2>2, <1>8, <1>11
  <2> QED
    BY <2>1, <2>2, <2>3, <1>2 DEF InTurn
<1>13. \A m \in 1..off[n] : lo <= Rank(flat[m]) /\ Rank(flat[m]) <= hi
  BY <1>2, <1>10 DEF InTurn
<1>14. ToSet(flat) = ToSet(s) \intersect held
  <2>1. \A i \in 1..n : s[i] \in held => off[i] \in 1..off[n]
    <3> SUFFICES ASSUME NEW i \in 1..n, s[i] \in held PROVE off[i] \in 1..off[n]
      OBVIOUS
    <3>1. off[i - 1] \in Nat /\ off[i] \in Nat /\ off[n] \in Nat
      BY <1>8
    <3> QED
      BY <3>1, <1>9
  <2>2. ToSet(flat) \subseteq ToSet(s) \intersect held
    BY <1>2, <1>8, <1>10 DEF ToSet
  <2>3. ToSet(s) \intersect held \subseteq ToSet(flat)
    BY <2>1, <1>2, <1>8, <1>9 DEF ToSet
  <2> QED
    BY <2>2, <2>3
<1> QED
  BY <1>6, <1>8, <1>12, <1>13, <1>14 DEF InTurn

\* A list that has the elements of two, in order, is one after the other.
LEMMA Glue ==
  ASSUME NEW S, NEW s \in Seq(S), NEW t \in Seq(S), NEW u \in Seq(S),
         Len(u) = Len(s) + Len(t),
         \A i \in 1..Len(s) : u[i] = s[i],
         \A i \in 1..Len(t) : u[Len(s) + i] = t[i]
  PROVE  s \o t = u
<1>1. PICK n \in Nat, m \in Nat : n = Len(s) /\ m = Len(t) /\ n + m = Len(u)
  <2>1. Len(s) \in Nat /\ Len(t) \in Nat
    OBVIOUS
  <2> QED
    BY <2>1
<1>2. PICK v : v = s \o t
  OBVIOUS
<1>3. v \in Seq(S) /\ Len(v) = n + m
  BY <1>1, <1>2
<1>4. \A i \in 1..n : v[i] = s[i]
  BY <1>1, <1>2
<1>5. \A i \in 1..m : v[n + i] = t[i]
  BY <1>1, <1>2
<1>6. \A i \in 1..(n + m) : v[i] = u[i]
  <2> SUFFICES ASSUME NEW i \in 1..(n + m) PROVE v[i] = u[i]
    OBVIOUS
  <2>1. CASE i \in 1..n
    BY <2>1, <1>1, <1>4
  <2>2. CASE i \notin 1..n
    <3>1. i - n \in 1..m /\ i = n + (i - n)
      BY <2>2
    <3>2. PICK k \in 1..m : i = n + k
      BY <3>1
    <3> QED BY <3>2, <1>1, <1>5
  <2> QED BY <2>1, <2>2
<1>7. u = v
  BY <1>1, <1>3, <1>6
<1> QED BY <1>2, <1>7

\* What is where when one list is put after another.
LEMMA OneThenOther ==
  ASSUME NEW S, NEW s \in Seq(S), NEW t \in Seq(S), NEW u, u = s \o t,
         NEW n \in Nat, NEW m \in Nat, n = Len(s), m = Len(t)
  PROVE  /\ u \in Seq(S) /\ Len(u) = n + m
         /\ \A i \in 1..n : u[i] = s[i]
         /\ \A i \in 1..m : u[n + i] = t[i]
<1>1. s \o t \in Seq(S) /\ Len(s \o t) = n + m
  OBVIOUS
<1>2. \A i \in 1..n : (s \o t)[i] = s[i]
  OBVIOUS
<1>3. \A i \in 1..m : (s \o t)[n + i] = t[i]
  OBVIOUS
<1> QED
  BY <1>1, <1>2, <1>3

\* The layers by name.
LEMMA AreLayers ==
  /\ "instance" \in Layers
  /\ "libffi" \in Layers
  /\ "dyld" \in Layers
  /\ "kv" \in Layers
  /\ "signing" \in Layers
  /\ "oauth" \in Layers
  /\ "credentials" \in Layers
  /\ "logging" \in Layers
  /\ "world" \in Layers
  /\ "component" \in Layers
  /\ "dyld.fac" \in Layers
  /\ "libffi.fac" \in Layers
  /\ "temp.root" \in Layers
  /\ "temp.dir" \in Layers
  /\ "root" \in Layers
  /\ "cache" \in Layers
  /\ "engine" \in Layers
  /\ "credentials.fac" \in Layers
  /\ "oauth.fac" \in Layers
  /\ "signing.fac" \in Layers
  /\ "kv.fac" \in Layers
  /\ "runtime" \in Layers
BY DEF Layers, ParticleLayers, MountLayers, BaseLayers, EngineOwned

\* The kinds of particle.
RunsOn == {"js", "python", "wasm"}

\* A JavaScript particle's host instances.
LEMMA HostInstsOfJS ==
  <<"logging">> \o <<"credentials", "oauth", "signing", "kv">>
    = <<"logging", "credentials", "oauth", "signing", "kv">>
<1>1. \A s, t, u \in Seq(Layers) :
         /\ Len(u) = Len(s) + Len(t)
         /\ \A i \in 1..Len(s) : u[i] = s[i]
         /\ \A i \in 1..Len(t) : u[Len(s) + i] = t[i]
         => s \o t = u
  BY Glue
<1> DEFINE s == <<"logging">>
           t == <<"credentials", "oauth", "signing", "kv">>
           u == <<"logging", "credentials", "oauth", "signing", "kv">>
<1>2. Len(u) = Len(s) + Len(t) /\ \A i \in 1..Len(s) : u[i] = s[i]
  OBVIOUS
<1>3. \A i \in 1..Len(t) : u[Len(s) + i] = t[i]
  OBVIOUS
<1>4. s \in Seq(Layers) /\ t \in Seq(Layers) /\ u \in Seq(Layers)
  BY AreLayers
<1> HIDE DEF s, t, u
<1>5. s \o t = u
  BY <1>1, <1>2, <1>3, <1>4
<1> QED
  BY <1>5 DEF s, t, u

\* A Python particle's host instances.
LEMMA HostInstsOfPython ==
  <<"credentials", "oauth", "signing", "kv">> \o <<"dyld", "libffi">>
    = <<"credentials", "oauth", "signing", "kv", "dyld", "libffi">>
<1>1. \A s, t, u \in Seq(Layers) :
         /\ Len(u) = Len(s) + Len(t)
         /\ \A i \in 1..Len(s) : u[i] = s[i]
         /\ \A i \in 1..Len(t) : u[Len(s) + i] = t[i]
         => s \o t = u
  BY Glue
<1> DEFINE s == <<"credentials", "oauth", "signing", "kv">>
           t == <<"dyld", "libffi">>
           u == <<"credentials", "oauth", "signing", "kv", "dyld", "libffi">>
<1>2. Len(u) = Len(s) + Len(t) /\ \A i \in 1..Len(s) : u[i] = s[i]
  OBVIOUS
<1>3. \A i \in 1..Len(t) : u[Len(s) + i] = t[i]
  OBVIOUS
<1>4. s \in Seq(Layers) /\ t \in Seq(Layers) /\ u \in Seq(Layers)
  BY AreLayers
<1> HIDE DEF s, t, u
<1>5. s \o t = u
  BY <1>1, <1>2, <1>3, <1>4
<1> QED
  BY <1>5 DEF s, t, u

\* The first rungs of the ladder.
LEMMA FirstFive ==
  <<"cache", "engine">> \o <<"credentials.fac", "oauth.fac", "signing.fac">>
    = <<"cache", "engine", "credentials.fac", "oauth.fac", "signing.fac">>
<1>1. \A s, t, u \in Seq(Layers) :
         /\ Len(u) = Len(s) + Len(t)
         /\ \A i \in 1..Len(s) : u[i] = s[i]
         /\ \A i \in 1..Len(t) : u[Len(s) + i] = t[i]
         => s \o t = u
  BY Glue
<1> DEFINE s == <<"cache", "engine">>
           t == <<"credentials.fac", "oauth.fac", "signing.fac">>
           u == <<"cache", "engine", "credentials.fac", "oauth.fac", "signing.fac">>
<1>2. Len(u) = Len(s) + Len(t) /\ \A i \in 1..Len(s) : u[i] = s[i]
  OBVIOUS
<1>3. \A i \in 1..Len(t) : u[Len(s) + i] = t[i]
  OBVIOUS
<1>4. s \in Seq(Layers) /\ t \in Seq(Layers) /\ u \in Seq(Layers)
  BY AreLayers
<1> HIDE DEF s, t, u
<1>5. s \o t = u
  BY <1>1, <1>2, <1>3, <1>4
<1> QED
  BY <1>5 DEF s, t, u

\* The rungs that are the same for all.
LEMMA FirstSeven ==
  <<"cache", "engine", "credentials.fac", "oauth.fac", "signing.fac">> \o <<"kv.fac", "runtime">>
    = <<"cache", "engine", "credentials.fac", "oauth.fac", "signing.fac", "kv.fac", "runtime">>
<1>1. \A s, t, u \in Seq(Layers) :
         /\ Len(u) = Len(s) + Len(t)
         /\ \A i \in 1..Len(s) : u[i] = s[i]
         /\ \A i \in 1..Len(t) : u[Len(s) + i] = t[i]
         => s \o t = u
  BY Glue
<1> DEFINE s == <<"cache", "engine", "credentials.fac", "oauth.fac", "signing.fac">>
           t == <<"kv.fac", "runtime">>
           u == <<"cache", "engine", "credentials.fac", "oauth.fac", "signing.fac", "kv.fac", "runtime">>
<1>2. Len(u) = Len(s) + Len(t) /\ \A i \in 1..Len(s) : u[i] = s[i]
  OBVIOUS
<1>3. \A i \in 1..Len(t) : u[Len(s) + i] = t[i]
  OBVIOUS
<1>4. s \in Seq(Layers) /\ t \in Seq(Layers) /\ u \in Seq(Layers)
  BY AreLayers
<1> HIDE DEF s, t, u
<1>5. s \o t = u
  BY <1>1, <1>2, <1>3, <1>4
<1> QED
  BY <1>5 DEF s, t, u

\* Host instances go in the reverse of the order they come in.
LEMMA HostInstsGo ==
  ASSUME NEW rt \in RunsOn
  PROVE  /\ InTurn(Reverse(HostInsts(rt)), 2, 8)
         /\ {"kv", "signing", "oauth", "credentials"} \subseteq ToSet(Reverse(HostInsts(rt)))
         /\ rt = "js" => "logging" \in ToSet(Reverse(HostInsts(rt)))
         /\ rt = "python" => {"libffi", "dyld"} \subseteq ToSet(Reverse(HostInsts(rt)))
<1>1. /\ Rank("libffi") = 2 /\ Rank("dyld") = 3 /\ Rank("kv") = 4
      /\ Rank("signing") = 5 /\ Rank("oauth") = 6 /\ Rank("credentials") = 7
      /\ Rank("logging") = 8
  BY DEF Rank, Order
<1>2. CASE rt = "js"
  <2>1. HostInsts(rt) = <<"logging", "credentials", "oauth", "signing", "kv">>
    BY <1>2, HostInstsOfJS DEF HostInsts, When
  <2>2. Reverse(HostInsts(rt)) = <<"kv", "signing", "oauth", "credentials", "logging">>
    BY <2>1 DEF Reverse
  <2>3. InTurn(Reverse(HostInsts(rt)), 2, 8)
    BY <1>1, <2>2, AreLayers DEF InTurn
  <2> QED
    BY <1>2, <2>2, <2>3 DEF ToSet
<1>3. CASE rt = "python"
  <2>1. HostInsts(rt) = <<"credentials", "oauth", "signing", "kv", "dyld", "libffi">>
    BY <1>3, HostInstsOfPython DEF HostInsts, When
  <2>2. Reverse(HostInsts(rt)) = <<"libffi", "dyld", "kv", "signing", "oauth", "credentials">>
    BY <2>1 DEF Reverse
  <2>3. InTurn(Reverse(HostInsts(rt)), 2, 8)
    BY <1>1, <2>2, AreLayers DEF InTurn
  <2> QED
    BY <1>3, <2>2, <2>3 DEF ToSet
<1>4. CASE rt = "wasm"
  <2>1. HostInsts(rt) = <<"credentials", "oauth", "signing", "kv">>
    BY <1>4 DEF HostInsts, When
  <2>2. Reverse(HostInsts(rt)) = <<"kv", "signing", "oauth", "credentials">>
    BY <2>1 DEF Reverse
  <2>3. InTurn(Reverse(HostInsts(rt)), 2, 8)
    BY <1>1, <2>2, AreLayers DEF InTurn
  <2> QED
    BY <1>4, <2>2, <2>3 DEF ToSet
<1> QED
  BY <1>2, <1>3, <1>4 DEF RunsOn

\* The particle's own layers, in the order they go: the instance first, the world last.
OfParticle(rt) == <<"instance">> \o Reverse(HostInsts(rt)) \o <<"world">>

\* What closing a particle releases, in turn: its instance, its host instances, its world.
LEMMA ParticleGoes ==
  ASSUME NEW rt \in RunsOn
  PROVE  /\ InTurn(OfParticle(rt), 1, 9)
         /\ {"instance", "kv", "signing", "oauth", "credentials", "world"} \subseteq ToSet(OfParticle(rt))
         /\ rt = "js" => "logging" \in ToSet(OfParticle(rt))
         /\ rt = "python" => {"libffi", "dyld"} \subseteq ToSet(OfParticle(rt))
<1>1. Rank("instance") = 1 /\ Rank("world") = 9
  BY DEF Rank, Order
<1>2. /\ InTurn(<<"instance">>, 1, 1) /\ ToSet(<<"instance">>) = {"instance"}
      /\ InTurn(<<"world">>, 9, 9) /\ ToSet(<<"world">>) = {"world"}
  BY <1>1, AreLayers DEF InTurn, ToSet
<1>3. PICK s : s = Reverse(HostInsts(rt))
  OBVIOUS
<1>4. InTurn(s, 2, 8)
  BY <1>3, HostInstsGo
<1>5. InTurn(<<"instance">> \o s, 1, 8) /\ ToSet(<<"instance">> \o s) = {"instance"} \union ToSet(s)
  BY <1>2, <1>4, InTurnThen
<1>6. /\ InTurn((<<"instance">> \o s) \o <<"world">>, 1, 9)
      /\ ToSet((<<"instance">> \o s) \o <<"world">>) = {"instance"} \union ToSet(s) \union {"world"}
  BY <1>2, <1>5, InTurnThen
<1> QED
  BY <1>3, <1>6, HostInstsGo DEF OfParticle

\* The layers under a particle, list by list, are in turn.
LEMMA BaseInTurn ==
  /\ InTurn(Reverse(Mounts), 10, 12) /\ ToSet(Reverse(Mounts)) = MountLayers
  /\ InTurn(Factories, 15, 17) /\ ToSet(Factories) = {"credentials.fac", "oauth.fac", "signing.fac"}
  /\ InTurn(<<"runtime">>, 13, 13) /\ ToSet(<<"runtime">>) = {"runtime"}
  /\ InTurn(<<"cache">>, 20, 20) /\ ToSet(<<"cache">>) = {"cache"}
  /\ InTurn(<<"engine">>, 19, 19) /\ ToSet(<<"engine">>) = {"engine"}
  /\ program.command = "boot" =>
       /\ InTurn(<<"runtime", "kv.fac">>, 13, 14) /\ ToSet(<<"runtime", "kv.fac">>) = {"runtime", "kv.fac"}
       /\ InTurn(<<"kv.fac">>, 14, 14) /\ ToSet(<<"kv.fac">>) = {"kv.fac"}
  /\ program.command # "boot" =>
       /\ InTurn(<<"kv.fac", "engine", "cache">>, 18, 20)
       /\ ToSet(<<"kv.fac", "engine", "cache">>) = {"kv.fac", "engine", "cache"}
<1>1. /\ Rank("temp.root") = 10 /\ Rank("temp.dir") = 11 /\ Rank("root") = 12
      /\ Rank("runtime") = 13 /\ Rank("credentials.fac") = 15 /\ Rank("oauth.fac") = 16
      /\ Rank("signing.fac") = 17 /\ Rank("engine") = 19 /\ Rank("cache") = 20
      /\ Rank("kv.fac") = IF program.command = "boot" THEN 14 ELSE 18
  BY DEF Rank, Order
<1>2. MountLayers \subseteq Layers /\ BaseLayers \subseteq Layers
  BY DEF Layers
<1>3. Reverse(Mounts) = <<"temp.root", "temp.dir", "root">>
  BY DEF Mounts, Reverse
<1>4. InTurn(Reverse(Mounts), 10, 12) /\ ToSet(Reverse(Mounts)) = MountLayers
  BY <1>1, <1>2, <1>3 DEF InTurn, MountLayers, ToSet
<1>5. InTurn(Factories, 15, 17) /\ ToSet(Factories) = {"credentials.fac", "oauth.fac", "signing.fac"}
  BY <1>1, <1>2 DEF InTurn, BaseLayers, ToSet, Factories
<1>6. /\ InTurn(<<"runtime">>, 13, 13) /\ ToSet(<<"runtime">>) = {"runtime"}
      /\ InTurn(<<"cache">>, 20, 20) /\ ToSet(<<"cache">>) = {"cache"}
      /\ InTurn(<<"engine">>, 19, 19) /\ ToSet(<<"engine">>) = {"engine"}
  BY <1>1, <1>2 DEF InTurn, BaseLayers, ToSet
<1>7. ASSUME program.command = "boot"
      PROVE  /\ InTurn(<<"runtime", "kv.fac">>, 13, 14)
             /\ ToSet(<<"runtime", "kv.fac">>) = {"runtime", "kv.fac"}
             /\ InTurn(<<"kv.fac">>, 14, 14) /\ ToSet(<<"kv.fac">>) = {"kv.fac"}
  BY <1>1, <1>2, <1>7 DEF InTurn, BaseLayers, ToSet
<1>8. ASSUME program.command # "boot"
      PROVE  /\ InTurn(<<"kv.fac", "engine", "cache">>, 18, 20)
             /\ ToSet(<<"kv.fac", "engine", "cache">>) = {"kv.fac", "engine", "cache"}
  BY <1>1, <1>2, <1>8 DEF InTurn, BaseLayers, ToSet
<1> QED
  BY <1>4, <1>5, <1>6, <1>7, <1>8

\* The layers of a particle and of its mounts.
Its == ToSet(OfParticle(program.runtime)) \union EngineOwned
         \union IF program.command = "boot" THEN MountLayers ELSE {}

Early == <<"cache", "engine", "credentials.fac", "oauth.fac", "signing.fac", "kv.fac", "runtime">>

\* The ladder: seven rungs that are the same for all, then the mounts and the particle.
LEMMA RungsAre ==
  ASSUME program \in Programs
  PROVE  /\ Len(Rungs) \in Nat /\ Len(Rungs) > 7
         /\ \A i \in 1..7 : Rungs[i] = Early[i]
         /\ \A i \in 8..Len(Rungs) : Rungs[i] \in Its
<1>1. program.runtime \in RunsOn
  BY ProgramsAssumption DEF RunsOn
<1> DEFINE mounts == When(program.command = "boot", Mounts)
           own == ParticleRungs(program.runtime)
<1>2. <<"cache", "engine">> \o Factories \o <<"kv.fac", "runtime">> = Early
  BY FirstFive, FirstSeven DEF Factories, Early
<1>3. mounts \in Seq(Its)
  <2>1. CASE program.command = "boot"
    <3>1. {"root", "temp.dir", "temp.root"} \subseteq Its
      BY <2>1 DEF Its, MountLayers
    <3>2. mounts = <<"root", "temp.dir", "temp.root">>
      BY <2>1 DEF When, Mounts
    <3> QED BY <3>1, <3>2
  <2>2. CASE program.command # "boot"
    BY <2>2 DEF When
  <2> QED BY <2>1, <2>2
<1>4. own \in Seq(Its) /\ Len(own) > 0
  <2> DEFINE js == When(program.runtime = "js", <<"logging">>)
             python == When(program.runtime = "python", <<"dyld.fac", "dyld", "libffi.fac", "libffi">>)
  <2>1. {"instance", "kv", "signing", "oauth", "credentials", "world", "component"} \subseteq Its
    BY <1>1, ParticleGoes DEF Its, EngineOwned
  <2>2. js \in Seq(Its)
    <3>1. CASE program.runtime = "js"
      <4>1. "logging" \in Its
        BY <1>1, <3>1, ParticleGoes DEF Its
      <4> QED BY <3>1, <4>1 DEF When
    <3>2. CASE program.runtime # "js"
      BY <3>2 DEF When
    <3> QED BY <3>1, <3>2
  <2>3. python \in Seq(Its)
    <3>1. CASE program.runtime = "python"
      <4>1. {"dyld.fac", "dyld", "libffi.fac", "libffi"} \subseteq Its
        BY <1>1, <3>1, ParticleGoes DEF Its, EngineOwned
      <4> QED BY <3>1, <4>1 DEF When
    <3>2. CASE program.runtime # "python"
      BY <3>2 DEF When
    <3> QED BY <3>1, <3>2
  <2>4. own = <<"component", "world">> \o js \o <<"credentials", "oauth", "signing", "kv">>
                \o python \o <<"instance">>
    BY DEF ParticleRungs
  <2> HIDE DEF js, python
  <2>5. /\ <<"component", "world">> \in Seq(Its) /\ <<"instance">> \in Seq(Its)
        /\ <<"credentials", "oauth", "signing", "kv">> \in Seq(Its)
    BY <2>1
  <2>6. PICK most \in Seq(Its) : own = most \o <<"instance">>
    <3>1. PICK x, y, z : x = <<"component", "world">> /\ y = <<"credentials", "oauth", "signing", "kv">>
                         /\ z = <<"instance">>
      OBVIOUS
    <3>2. x \o js \in Seq(Its)
      BY <2>2, <2>5, <3>1
    <3>3. (x \o js) \o y \in Seq(Its)
      BY <3>2, <2>5, <3>1
    <3>4. ((x \o js) \o y) \o python \in Seq(Its)
      BY <3>3, <2>3
    <3> QED
      BY <3>1, <3>4, <2>4
  <2> QED
    BY <2>5, <2>6
<1>5. Rungs = (Early \o mounts) \o own
  BY <1>2 DEF Rungs
<1> HIDE DEF mounts, own
<1>6. PICK m \in Nat, k \in Nat : m = Len(mounts) /\ k = Len(own) /\ k > 0
  BY <1>3, <1>4
<1>7. PICK r : r = Rungs
  OBVIOUS
<1>8. PICK s : s = Early \o mounts
  OBVIOUS
<1>9. PICK S : S = Layers \union Its
  OBVIOUS
<1>lists. Early \in Seq(S) /\ Len(Early) = 7 /\ mounts \in Seq(S) /\ own \in Seq(S)
  <2>1. \A x \in Layers \union Its : x \in S
    BY <1>9
  <2> QED
    BY <1>3, <1>4, <1>9, <2>1, AreLayers DEF Early
<1>10. s \in Seq(S) /\ Len(s) = 7 + m /\ \A i \in 1..7 : s[i] = Early[i]
  <2>1. PICK e \in Seq(S), z \in Seq(S) : e = Early /\ z = mounts /\ s = e \o z
    BY <1>8, <1>lists
  <2>11. PICK n \in Nat : n = Len(e)
    OBVIOUS
  <2>12. m = Len(z)
    BY <2>1, <1>6
  <2>13. s = e \o z
    BY <2>1
  <2>2. s \in Seq(S) /\ Len(s) = n + m /\ \A i \in 1..n : s[i] = e[i]
    BY <2>11, <2>12, <2>13, OneThenOther
  <2>3. n = 7
    BY <2>1, <2>11, <1>lists
  <2> QED
    BY <2>1, <2>2, <2>3
<1>11. \A i \in 8..(7 + m) : s[i] \in Its
  <2> SUFFICES ASSUME NEW i \in 8..(7 + m) PROVE s[i] \in Its
    OBVIOUS
  <2>1. PICK j \in 1..m : i = 7 + j
    <3>1. i - 7 \in 1..m /\ i = 7 + (i - 7)
      OBVIOUS
    <3> QED BY <3>1
  <2>2. s[i] = mounts[j]
    <3>1. PICK e \in Seq(S), z \in Seq(S) : e = Early /\ z = mounts /\ s = e \o z
      BY <1>8, <1>lists
    <3>11. PICK n \in Nat : n = Len(e)
      OBVIOUS
    <3>12. m = Len(z)
      BY <3>1, <1>6
    <3>13. s = e \o z
      BY <3>1
    <3>2. \A q \in 1..m : s[n + q] = z[q]
      BY <3>11, <3>12, <3>13, OneThenOther
    <3>3. n = 7
      BY <3>1, <3>11, <1>lists
    <3> QED
      BY <2>1, <3>1, <3>2, <3>3
  <2> QED
    BY <2>2, <1>3, <1>6
<1>12. r \in Seq(S) /\ Len(r) = 7 + m + k /\ \A i \in 1..(7 + m) : r[i] = s[i]
  <2>1. PICK n \in Nat : n = 7 + m
    BY <1>6
  <2>2. s \in Seq(S) /\ n = Len(s) /\ r = s \o own
    BY <2>1, <1>5, <1>7, <1>8, <1>10
  <2>3. r \in Seq(S) /\ Len(r) = n + k /\ \A i \in 1..n : r[i] = s[i]
    BY <2>2, <1>6, <1>lists, OneThenOther
  <2> QED
    BY <2>1, <2>3
<1>13. \A i \in (8 + m)..(7 + m + k) : r[i] \in Its
  <2> SUFFICES ASSUME NEW i \in (8 + m)..(7 + m + k) PROVE r[i] \in Its
    OBVIOUS
  <2>1. PICK j \in 1..k : i = (7 + m) + j
    <3>1. i - (7 + m) \in 1..k /\ i = (7 + m) + (i - (7 + m))
      OBVIOUS
    <3> QED BY <3>1
  <2>2. r[i] = own[j]
    <3>1. PICK n \in Nat : n = 7 + m
      BY <1>6
    <3>2. s \in Seq(S) /\ n = Len(s) /\ r = s \o own
      BY <3>1, <1>5, <1>7, <1>8, <1>10
    <3>3. \A q \in 1..k : r[n + q] = own[q]
      BY <3>2, <1>6, <1>lists, OneThenOther
    <3> QED
      BY <2>1, <3>1, <3>3
  <2> QED
    BY <2>2, <1>4, <1>6
<1>14. Len(r) > 7 /\ Len(r) \in Nat
  BY <1>6, <1>12
<1>15. \A i \in 1..7 : r[i] = Early[i]
  <2> SUFFICES ASSUME NEW i \in 1..7 PROVE r[i] = Early[i]
    OBVIOUS
  <2>1. i \in 1..(7 + m)
    BY <1>6
  <2> QED BY <2>1, <1>10, <1>12
<1>16. \A i \in 8..Len(r) : r[i] \in Its
  <2> SUFFICES ASSUME NEW i \in 8..Len(r) PROVE r[i] \in Its
    OBVIOUS
  <2>1. CASE i <= 7 + m
    <3>1. i \in 1..(7 + m) /\ i \in 8..(7 + m)
      BY <2>1, <1>6
    <3> QED BY <3>1, <1>11, <1>12
  <2>2. CASE i > 7 + m
    <3>1. i \in (8 + m)..(7 + m + k)
      BY <2>2, <1>6, <1>12
    <3> QED BY <3>1, <1>13
  <2> QED BY <2>1, <2>2
<1> QED
  BY <1>7, <1>14, <1>15, <1>16

\* What has been built when a rung is next: those below it, but perhaps the cache.
Climbed ==
  /\ held \subseteq BaseLayers \union Its
  /\ rung <= 7 => held \subseteq BaseLayers \ {"runtime"}
  /\ \A i \in 2..7 : i < rung => Early[i] \in held

\* What bootParticle's returns before the runtime forget.
Forgotten == IF program.command = "boot" /\ "runtime" \notin held THEN {"cache"} ELSE {}

\* A list that releases all there is, in turn.
Unwinds(list) ==
  /\ InTurn(list, 1, 20)
  /\ ToSet(list) \subseteq held \ Forgotten
  /\ held \subseteq ToSet(list) \union EngineOwned \union Forgotten
  /\ "engine" \in ToSet(list)

\* The layers of a particle and of its mounts are none of the first seven.
LEMMA ItsApart ==
  ASSUME program \in Programs
  PROVE  Its \intersect BaseLayers = {}
<1> DEFINE own == OfParticle(program.runtime)
<1>1. InTurn(own, 1, 9)
  BY ParticleGoes, ProgramsAssumption DEF RunsOn
<1> HIDE DEF own
<1>2. \A l \in ToSet(own) : l \in Layers /\ Rank(l) <= 9
  BY <1>1 DEF InTurn, ToSet
<1>3. \A l \in BaseLayers : Rank(l) \in Nat /\ Rank(l) >= 13
  <2>1. \A l \in BaseLayers : Rank(l) \in 1..20
    BY Ranks DEF Layers
  <2> QED
    BY <2>1, Ranks
<1>4. \A l \in ToSet(own) : l \notin BaseLayers
  <2> SUFFICES ASSUME NEW l \in ToSet(own), l \in BaseLayers PROVE FALSE
    OBVIOUS
  <2>1. Rank(l) <= 9 /\ Rank(l) \in Nat /\ Rank(l) >= 13
    BY <1>2, <1>3
  <2> QED
    BY <2>1
<1>5. (MountLayers \union EngineOwned) \intersect BaseLayers = {}
  BY DEF MountLayers, EngineOwned, BaseLayers
<1> QED
  BY <1>4, <1>5 DEF Its, own

\* What the particle's own list releases.
LEMMA OwnUnwinds ==
  ASSUME program \in Programs
  PROVE  /\ InTurn(CloseParticle, 1, 9)
         /\ ToSet(CloseParticle) = ToSet(OfParticle(program.runtime)) \intersect held
<1>1. InTurn(OfParticle(program.runtime), 1, 9)
  BY ParticleGoes, ProgramsAssumption DEF RunsOn
<1>2. CloseParticle = HeldOf(OfParticle(program.runtime))
  BY DEF CloseParticle, OfParticle
<1> QED
  BY <1>1, <1>2, HeldInTurn

\* The lists of bootParticle's returns before the runtime.
LEMMA EarlyUnwinds ==
  ASSUME program \in Programs, program.command = "boot", Climbed, rung \in 3..7
  PROVE  Unwinds(Unwind)
<1>1. "engine" \in held /\ "runtime" \notin held
  <2>1. Early[2] \in held
    BY DEF Climbed
  <2> QED
    BY <2>1 DEF Climbed, Early
<1>2. Unwind = CloseParticle \o CloseEarly
  BY <1>1 DEF Unwind
<1>3. PICK a, b, c, e : /\ a = CloseParticle /\ b = HeldOf(<<"kv.fac">>) /\ c = HeldOf(Factories)
                        /\ e = <<"engine">>
  OBVIOUS
<1>4. Unwind = a \o ((b \o c) \o e)
  BY <1>2, <1>3 DEF CloseEarly, CloseManager
<1>5. InTurn(a, 1, 9) /\ ToSet(a) = ToSet(OfParticle(program.runtime)) \intersect held
  BY <1>3, OwnUnwinds
<1>6. InTurn(b, 14, 14) /\ ToSet(b) = {"kv.fac"} \intersect held
  BY <1>3, BaseInTurn, HeldInTurn
<1>7. /\ InTurn(c, 15, 17)
      /\ ToSet(c) = {"credentials.fac", "oauth.fac", "signing.fac"} \intersect held
  BY <1>3, BaseInTurn, HeldInTurn
<1>8. InTurn(e, 19, 19) /\ ToSet(e) = {"engine"}
  BY <1>3, BaseInTurn
<1>9. InTurn(b \o c, 14, 17) /\ ToSet(b \o c) = ToSet(b) \union ToSet(c)
  BY <1>6, <1>7, InTurnThen
<1>10. InTurn((b \o c) \o e, 14, 20) /\ ToSet((b \o c) \o e) = ToSet(b) \union ToSet(c) \union ToSet(e)
  <2>1. InTurn(e, 19, 20)
    BY <1>8, Wider
  <2> QED
    BY <2>1, <1>9, InTurnThen
<1>11. /\ InTurn(Unwind, 1, 20)
       /\ ToSet(Unwind) = ToSet(a) \union ToSet(b) \union ToSet(c) \union ToSet(e)
  BY <1>4, <1>5, <1>10, InTurnThen
<1>12. "cache" \notin ToSet(a)
  <2>1. "cache" \in BaseLayers
    BY DEF BaseLayers
  <2> QED
    BY <2>1, <1>5, ItsApart DEF Its
<1>13. held \subseteq {"cache", "engine", "credentials.fac", "oauth.fac", "signing.fac", "kv.fac"}
  BY DEF Climbed, BaseLayers
<1>14. Forgotten = {"cache"}
  BY <1>1 DEF Forgotten
<1> QED
  BY <1>1, <1>5, <1>6, <1>7, <1>8, <1>11, <1>12, <1>13, <1>14 DEF Unwinds

\* Its list from the runtime on.
LEMMA BootUnwinds ==
  ASSUME program \in Programs, program.command = "boot", Climbed, rung \in Nat, rung > 7
  PROVE  Unwinds(Unwind)
<1>1. {"engine", "credentials.fac", "oauth.fac", "signing.fac", "kv.fac", "runtime"} \subseteq held
  <2>1. \A i \in 2..7 : Early[i] \in held
    BY DEF Climbed
  <2> QED
    BY <2>1 DEF Early
<1>2. Unwind = CloseParticle \o (CloseMounts \o CloseBoot)
  BY <1>1 DEF Unwind
<1>3. PICK a, m, b, c, e, f : /\ a = CloseParticle /\ m = HeldOf(Reverse(Mounts))
                              /\ b = <<"runtime", "kv.fac">> /\ c = Factories /\ e = <<"engine">>
                              /\ f = HeldOf(<<"cache">>)
  OBVIOUS
<1>4. Unwind = a \o (m \o (((b \o c) \o e) \o f))
  BY <1>2, <1>3 DEF CloseBoot, CloseMounts
<1>5. InTurn(a, 1, 9) /\ ToSet(a) = ToSet(OfParticle(program.runtime)) \intersect held
  BY <1>3, OwnUnwinds
<1>6. InTurn(m, 10, 12) /\ ToSet(m) = MountLayers \intersect held
  BY <1>3, BaseInTurn, HeldInTurn
<1>7. InTurn(b, 13, 14) /\ ToSet(b) = {"runtime", "kv.fac"}
  BY <1>3, BaseInTurn
<1>8. InTurn(c, 15, 17) /\ ToSet(c) = {"credentials.fac", "oauth.fac", "signing.fac"}
  BY <1>3, BaseInTurn
<1>9. InTurn(e, 19, 19) /\ ToSet(e) = {"engine"}
  BY <1>3, BaseInTurn
<1>10. InTurn(f, 20, 20) /\ ToSet(f) = {"cache"} \intersect held
  BY <1>3, BaseInTurn, HeldInTurn
<1>11. InTurn(b \o c, 13, 17) /\ ToSet(b \o c) = ToSet(b) \union ToSet(c)
  BY <1>7, <1>8, InTurnThen
<1>12. InTurn((b \o c) \o e, 13, 19) /\ ToSet((b \o c) \o e) = ToSet(b) \union ToSet(c) \union ToSet(e)
  BY <1>9, <1>11, InTurnThen
<1>13. /\ InTurn(((b \o c) \o e) \o f, 13, 20)
       /\ ToSet(((b \o c) \o e) \o f) = ToSet(b) \union ToSet(c) \union ToSet(e) \union ToSet(f)
  BY <1>10, <1>12, InTurnThen
<1>14. PICK g : g = ((b \o c) \o e) \o f
  OBVIOUS
<1>15. InTurn(m \o g, 10, 20) /\ ToSet(m \o g) = ToSet(m) \union ToSet(g)
  BY <1>6, <1>13, <1>14, InTurnThen
<1>16. InTurn(Unwind, 1, 20) /\ ToSet(Unwind) = ToSet(a) \union ToSet(m) \union ToSet(g)
  BY <1>4, <1>5, <1>14, <1>15, InTurnThen
<1>17. held \subseteq {"cache", "engine", "credentials.fac", "oauth.fac", "signing.fac", "kv.fac", "runtime"}
                       \union ToSet(OfParticle(program.runtime)) \union EngineOwned \union MountLayers
  BY DEF Climbed, BaseLayers, Its
<1>18. Forgotten = {}
  BY <1>1 DEF Forgotten
<1> QED
  BY <1>1, <1>5, <1>6, <1>7, <1>8, <1>9, <1>10, <1>13, <1>14, <1>16, <1>17, <1>18 DEF Unwinds

\* The list of a build, at any rung past the engine.
LEMMA BuildUnwinds ==
  ASSUME program \in Programs, program.command # "boot", Climbed, rung \in Nat, rung > 2
  PROVE  Unwinds(Unwind)
<1>1. "engine" \in held
  <2>1. Early[2] \in held
    BY DEF Climbed
  <2> QED
    BY <2>1 DEF Early
<1>2. program.command = "build"
  BY ProgramsAssumption
<1>3. PICK a, b, c, e : /\ a = CloseParticle /\ b = HeldOf(<<"runtime">>) /\ c = HeldOf(Factories)
                        /\ e = HeldOf(<<"kv.fac", "engine", "cache">>)
  OBVIOUS
<1>4. Unwind = a \o ((b \o c) \o e)
  BY <1>2, <1>3 DEF Unwind, CloseBuild, CloseManager
<1>5. InTurn(a, 1, 9) /\ ToSet(a) = ToSet(OfParticle(program.runtime)) \intersect held
  BY <1>3, OwnUnwinds
<1>6. InTurn(b, 13, 13) /\ ToSet(b) = {"runtime"} \intersect held
  BY <1>3, BaseInTurn, HeldInTurn
<1>7. /\ InTurn(c, 15, 17)
      /\ ToSet(c) = {"credentials.fac", "oauth.fac", "signing.fac"} \intersect held
  BY <1>3, BaseInTurn, HeldInTurn
<1>8. InTurn(e, 18, 20) /\ ToSet(e) = {"kv.fac", "engine", "cache"} \intersect held
  BY <1>3, BaseInTurn, HeldInTurn
<1>9. InTurn(b \o c, 13, 17) /\ ToSet(b \o c) = ToSet(b) \union ToSet(c)
  BY <1>6, <1>7, InTurnThen
<1>10. InTurn((b \o c) \o e, 13, 20) /\ ToSet((b \o c) \o e) = ToSet(b) \union ToSet(c) \union ToSet(e)
  BY <1>8, <1>9, InTurnThen
<1>11. /\ InTurn(Unwind, 1, 20)
       /\ ToSet(Unwind) = ToSet(a) \union ToSet(b) \union ToSet(c) \union ToSet(e)
  BY <1>4, <1>5, <1>10, InTurnThen
<1>12. held \subseteq {"cache", "engine", "credentials.fac", "oauth.fac", "signing.fac", "kv.fac", "runtime"}
                       \union ToSet(OfParticle(program.runtime)) \union EngineOwned
  BY <1>2 DEF Climbed, BaseLayers, Its
<1>13. Forgotten = {}
  BY <1>2 DEF Forgotten
<1> QED
  BY <1>1, <1>5, <1>6, <1>7, <1>8, <1>11, <1>12, <1>13 DEF Unwinds

\* So whichever list it is, it releases all there is, in turn.
LEMMA AllUnwinds ==
  ASSUME program \in Programs, Climbed, rung \in Nat, rung > 2
  PROVE  Unwinds(Unwind)
BY EarlyUnwinds, BootUnwinds, BuildUnwinds

\* The exception of NothingIsLeft.
Excused ==
  IF program.command = "boot" /\ broken \in ToSet(Factories) \union {"kv.fac"}
    THEN opened \intersect {"cache"} ELSE {}

\* On the way up all that was opened is held.
Rising ==
  /\ rung \in Nat /\ rung >= 1 /\ Climbed
  /\ releasing = <<>> /\ held = opened /\ broken = "none"

\* On the way down what is held is on the list, goes with the engine that is on it, or is
\* excused; and what is gone went before what is held.
Falling ==
  /\ InTurn(releasing, 1, 20)
  /\ ToSet(releasing) \subseteq held \ Excused
  /\ held \subseteq ToSet(releasing) \union Excused
                     \union IF "engine" \in ToSet(releasing) THEN EngineOwned ELSE {}
  /\ Excused \subseteq held
  /\ \A x \in opened \ held : \A y \in held : Rank(x) < Rank(y)

BootInv ==
  /\ program \in Programs /\ stage \in {"booting", "up", "closing", "over"}
  /\ held \subseteq opened /\ opened \subseteq Layers
  /\ stage \in {"booting", "up"} => Rising
  /\ stage = "booting" => rung <= Len(Rungs)
  /\ stage = "up" => rung > 7
  /\ stage \in {"closing", "over"} => Falling
  /\ stage = "over" => releasing = <<>>

\* A program starts with nothing.
LEMMA BootStart == BootInit => BootInv
<1> SUFFICES ASSUME BootInit PROVE BootInv
  OBVIOUS
<1>1. Len(Rungs) \in Nat /\ Len(Rungs) > 7
  BY RungsAre DEF BootInit
<1>2. Climbed
  BY DEF BootInit, Climbed
<1> QED
  BY <1>1, <1>2 DEF BootInit, BootInv, Rising

\* Its are layers.
LEMMA ItsAreLayers ==
  ASSUME program \in Programs
  PROVE  Its \subseteq Layers
<1> DEFINE own == OfParticle(program.runtime)
<1>1. InTurn(own, 1, 9)
  BY ParticleGoes, ProgramsAssumption DEF RunsOn
<1> HIDE DEF own
<1>2. ToSet(own) \subseteq Layers
  BY <1>1 DEF InTurn, ToSet
<1> QED
  BY <1>2 DEF Its, own, Layers

\* One more rung.
LEMMA RungKeeps ==
  ASSUME BootInv, Build
  PROVE  BootInv'
<1>1. /\ program \in Programs /\ program' = program /\ Rising /\ rung <= Len(Rungs)
      /\ Len(Rungs) \in Nat /\ Len(Rungs) > 7
  BY RungsAre DEF Build, BootInv
<1>2. rung \in Nat /\ rung >= 1 /\ rung' = rung + 1
  BY <1>1 DEF Rising, Build
<1>3. PICK new : new = Rungs[rung]
  OBVIOUS
<1>4. held' = held \union {new} /\ opened' = opened \union {new}
  BY <1>3 DEF Build
<1>5. CASE rung <= 7
  <2>1. new = Early[rung] /\ rung \in 1..7
    BY <1>1, <1>2, <1>3, <1>5, RungsAre
  <2>2. new \in BaseLayers /\ (rung < 7 => new # "runtime")
    BY <2>1 DEF Early, BaseLayers
  <2>3. Climbed'
    <3>1. Its' = Its
      BY <1>1 DEF Its, OfParticle
    <3>2. held' \subseteq BaseLayers \union Its /\ (rung' <= 7 => held' \subseteq BaseLayers \ {"runtime"})
      BY <1>1, <1>2, <1>4, <1>5, <2>2 DEF Rising, Climbed
    <3>3. ASSUME NEW i \in 2..7, i < rung' PROVE Early[i] \in held'
      <4>1. CASE i = rung
        BY <4>1, <2>1, <1>4
      <4>2. CASE i < rung
        BY <4>2, <1>1, <1>4 DEF Rising, Climbed
      <4> QED
        BY <3>3, <4>1, <4>2, <1>2
    <3> QED
      BY <3>1, <3>2, <3>3 DEF Climbed, Early
  <2>4. new \in Layers
    BY <2>2 DEF Layers
  <2> QED
    BY <1>1, <1>2, <1>4, <2>3, <2>4, <1>5 DEF BootInv, Rising, Build, Rungs, ParticleRungs
<1>6. CASE rung > 7
  <2>1. new \in Its
    <3>1. rung \in 8..Len(Rungs)
      BY <1>1, <1>2, <1>6
    <3> QED
      BY <3>1, <1>1, <1>3, RungsAre
  <2>2. Climbed'
    <3>1. Its' = Its
      BY <1>1 DEF Its, OfParticle
    <3>2. \A i \in 2..7 : Early[i] \in held
      BY <1>1, <1>2, <1>6 DEF Rising, Climbed
    <3>3. held \subseteq BaseLayers \union Its
      BY <1>1 DEF Rising, Climbed
    <3> QED
      BY <3>1, <3>2, <3>3, <2>1, <1>2, <1>4, <1>6 DEF Climbed, Early
  <2>3. new \in Layers
    BY <2>1, <1>1, ItsAreLayers
  <2> QED
    BY <1>1, <1>2, <1>4, <2>2, <2>3, <1>6, SMTT(30) DEF BootInv, Rising, Build, Rungs, ParticleRungs
<1> QED
  BY <1>2, <1>5, <1>6

\* A run without a cache.
LEMMA WithoutKeeps ==
  ASSUME BootInv, GoesWithout
  PROVE  BootInv'
<1>1. /\ program \in Programs /\ Rising /\ rung <= Len(Rungs) /\ rung \in Nat /\ rung >= 1
      /\ Len(Rungs) \in Nat /\ Len(Rungs) > 7
  BY RungsAre DEF GoesWithout, BootInv, Rising
<1>2. rung = 1
  <2>1. Rungs[rung] = "cache"
    BY DEF GoesWithout
  <2>2. CASE rung \in 2..7
    <3>1. Rungs[rung] = Early[rung]
      BY <2>2, <1>1, RungsAre
    <3> QED
      BY <2>1, <2>2, <3>1 DEF Early
  <2>3. CASE rung \in 8..Len(Rungs)
    <3>1. "cache" \in Its
      BY <2>1, <2>3, <1>1, RungsAre
    <3> QED
      BY <3>1, <1>1, ItsApart DEF BaseLayers
  <2> QED
    BY <1>1, <2>2, <2>3
<1>3. rung' = 2 /\ Climbed'
  BY <1>1, <1>2 DEF GoesWithout, Rising, Climbed, Its, OfParticle
<1> QED
  BY <1>1, <1>3 DEF GoesWithout, BootInv, Rising, Rungs, ParticleRungs

\* Where the way down begins.
LEMMA FallBegins ==
  ASSUME BootInv, Rising, rung > 2, releasing' = Unwind, stage' = "closing",
         UNCHANGED <<program, rung, held, opened>>, Excused' = Forgotten \intersect held
  PROVE  BootInv'
<1>1. Unwinds(Unwind)
  BY AllUnwinds DEF BootInv, Rising
<1>2. Falling'
  BY <1>1 DEF Rising, Falling, Unwinds, InTurn, Rank
<1> QED
  BY <1>2 DEF BootInv

\* A failure.
LEMMA FailKeeps ==
  ASSUME BootInv, Fail
  PROVE  BootInv'
<1>1. /\ program \in Programs /\ Rising /\ rung <= Len(Rungs) /\ rung \in Nat /\ rung >= 1
      /\ Len(Rungs) \in Nat /\ Len(Rungs) > 7 /\ held = opened
  BY RungsAre DEF Fail, BootInv, Rising
<1>2. \A i \in 1..7 : Rungs[i] = Early[i]
  BY <1>1, RungsAre
<1>3. rung # 1 /\ rung # 2 /\ rung # 7
  BY <1>2 DEF Fail, Early
<1>4. Excused' = Forgotten \intersect held
  <2>1. CASE rung <= 7
    <3>1. rung \in 3..6
      BY <1>1, <1>3, <2>1
    <3>2. Rungs[rung] = Early[rung]
      BY <3>1, <1>2
    <3>3. broken' \in ToSet(Factories) \union {"kv.fac"}
      BY <3>1, <3>2, BaseInTurn DEF Fail, Early
    <3>4. "runtime" \notin held
      BY <1>1, <2>1 DEF Rising, Climbed
    <3> QED
      BY <1>1, <3>3, <3>4 DEF Excused, Forgotten, Fail, Factories, ToSet
  <2>2. CASE rung > 7
    <3>1. Rungs[rung] \in Its
      <4>1. rung \in 8..Len(Rungs)
        BY <1>1, <2>2
      <4> QED
        BY <4>1, <1>1, RungsAre
    <3>2. broken' \notin ToSet(Factories) \union {"kv.fac"}
      BY <3>1, <1>1, ItsApart, BaseInTurn DEF Fail, BaseLayers
    <3>3. Early[7] \in held
      BY <1>1, <2>2 DEF Rising, Climbed
    <3> QED
      BY <3>2, <3>3 DEF Excused, Forgotten, Fail, Factories, ToSet, Early
  <2> QED
    BY <1>1, <2>1, <2>2
<1> QED
  BY <1>1, <1>3, <1>4, FallBegins DEF Fail

\* The end of the process.
LEMMA TearDownKeeps ==
  ASSUME BootInv, TearDown
  PROVE  BootInv'
<1>1. Rising /\ rung \in Nat /\ rung > 7 /\ broken = "none" /\ broken' = broken
  BY DEF TearDown, BootInv, Rising
<1>2. Excused' = Forgotten \intersect held
  <2>1. broken' \notin ToSet(Factories) \union {"kv.fac"}
    BY <1>1, BaseInTurn
  <2>2. Early[7] \in held
    BY <1>1 DEF Rising, Climbed
  <2> QED
    BY <2>1, <2>2 DEF Excused, Forgotten, Factories, ToSet, Early
<1> QED
  BY <1>1, <1>2, FallBegins DEF TearDown

\* A release takes what is at the head of the list, and what goes with the engine.
LEMMA ReleaseKeeps ==
  ASSUME BootInv, Release
  PROVE  BootInv'
<1>1. Falling /\ releasing # <<>> /\ releasing \in Seq(Layers)
  BY DEF Release, BootInv, Falling, InTurn
<1>2. PICK h, rest : h = Head(releasing) /\ rest = Tail(releasing)
  OBVIOUS
<1>3. /\ h \in Layers /\ rest \in Seq(Layers) /\ ToSet(releasing) = {h} \union ToSet(rest)
      /\ \A l \in ToSet(rest) : Rank(h) < Rank(l)
      /\ InTurn(rest, 1, 20)
  <2>1. PICK n \in Nat : n = Len(releasing) /\ n > 0
    BY <1>1
  <2>2. /\ h = releasing[1] /\ rest \in Seq(Layers) /\ Len(rest) = n - 1
        /\ \A i \in 1..(n - 1) : rest[i] = releasing[i + 1]
    BY <1>1, <1>2, <2>1
  <2>3. DOMAIN releasing = 1..n /\ DOMAIN rest = 1..(n - 1)
    BY <1>1, <2>1, <2>2
  <2>4. \A i \in 1..(n - 1) : i + 1 \in 1..n
    BY <2>1
  <2>5. 1 \in 1..n
    BY <2>1
  <2>6. /\ \A i, j \in 1..n : i < j => Rank(releasing[i]) < Rank(releasing[j])
        /\ \A i \in 1..n : 1 <= Rank(releasing[i]) /\ Rank(releasing[i]) <= 20
    BY <1>1, <2>3 DEF Falling, InTurn
  <2>7. InTurn(rest, 1, 20)
    <3>1. ASSUME NEW i \in 1..(n - 1), NEW j \in 1..(n - 1), i < j
          PROVE  Rank(rest[i]) < Rank(rest[j])
      <4>1. i + 1 \in 1..n /\ j + 1 \in 1..n /\ i + 1 < j + 1
        BY <3>1, <2>1
      <4> QED
        BY <4>1, <2>2, <2>6
    <3>2. ASSUME NEW i \in 1..(n - 1) PROVE 1 <= Rank(rest[i]) /\ Rank(rest[i]) <= 20
      BY <2>2, <2>4, <2>6
    <3> QED
      BY <2>2, <2>3, <3>1, <3>2 DEF InTurn
  <2>8. ToSet(rest) \subseteq ToSet(releasing) /\ h \in ToSet(releasing)
    BY <2>2, <2>3, <2>4, <2>5 DEF ToSet
  <2>9. ASSUME NEW l \in ToSet(releasing) PROVE l = h \/ l \in ToSet(rest)
    <3>1. PICK i \in 1..n : l = releasing[i]
      BY <2>3 DEF ToSet
    <3>2. CASE i = 1
      BY <3>1, <3>2, <2>2
    <3>3. CASE i # 1
      <4>1. PICK j \in 1..(n - 1) : i = j + 1
        <5>1. i - 1 \in 1..(n - 1) /\ i = (i - 1) + 1
          BY <3>3
        <5> QED
          BY <5>1
      <4> QED
        BY <3>1, <4>1, <2>2, <2>3 DEF ToSet
    <3> QED
      BY <3>2, <3>3
  <2>10. ASSUME NEW l \in ToSet(rest) PROVE Rank(h) < Rank(l)
    <3>1. PICK j \in 1..(n - 1) : l = rest[j]
      BY <2>3 DEF ToSet
    <3>2. l = releasing[j + 1] /\ j + 1 \in 1..n /\ 1 < j + 1
      BY <3>1, <2>1, <2>2
    <3> QED
      BY <3>2, <2>2, <2>5, <2>6
  <2>11. h \in Layers
    BY <1>1, <2>1, <2>2, <2>5
  <2> QED
    BY <2>2, <2>7, <2>8, <2>9, <2>10, <2>11
<1>4. /\ held' = held \ With(h) /\ releasing' = rest
      /\ UNCHANGED <<program, stage, rung, opened, broken>>
  BY <1>2 DEF Release
<1>5. Excused' = Excused /\ Excused \subseteq {"cache"}
  BY <1>4 DEF Excused, Factories, ToSet
<1>6. \A l : Rank(l)' = Rank(l)
  BY <1>4 DEF Rank
<1>7. h \notin ToSet(rest)
  <2>1. Rank(h) \in Nat
    BY <1>3, Ranks
  <2> QED
    BY <1>3, <2>1
<1>8. With(h) = IF h = "engine" THEN {h} \union EngineOwned ELSE {h}
  BY DEF With, EngineOwned
<1>9. ToSet(rest) \subseteq held /\ h \in held /\ h \notin Excused
  BY <1>1, <1>3 DEF Falling
<1>10. \A l \in EngineOwned \union {"engine"} : Rank(l) = 19
  BY Ranks
<1>11. ToSet(rest) \subseteq held'
  <2> SUFFICES ASSUME NEW l \in ToSet(rest), l \in With(h) PROVE FALSE
    BY <1>4, <1>9
  <2>1. h = "engine" /\ l \in EngineOwned
    BY <1>7, <1>8
  <2>2. Rank(l) = 19 /\ Rank(h) = 19
    BY <2>1, <1>10
  <2> QED
    BY <2>2, <1>3
<1>12. held' \subseteq ToSet(rest) \union Excused
                        \union IF "engine" \in ToSet(rest) THEN EngineOwned ELSE {}
  BY <1>1, <1>3, <1>4, <1>8 DEF Falling
<1>13. Excused \subseteq held'
  <2>1. "cache" \notin EngineOwned
    BY DEF EngineOwned
  <2> QED
    BY <2>1, <1>1, <1>4, <1>5, <1>8, <1>9 DEF Falling
<1>14. \A x \in opened \ held' : \A y \in held' : Rank(x) < Rank(y)
  <2> SUFFICES ASSUME NEW x \in opened \ held', NEW y \in held' PROVE Rank(x) < Rank(y)
    OBVIOUS
  <2>1. y \in held /\ y \in Layers /\ y # h
    BY <1>4, <1>8 DEF BootInv
  <2>2. CASE x \notin held
    BY <2>1, <2>2, <1>1 DEF Falling
  <2>3. CASE x \in held
    <3>1. x \in With(h)
      BY <2>3, <1>4
    <3>2. Rank(x) = Rank(h)
      BY <3>1, <1>8, <1>10
    <3>3. Rank(h) < Rank(y)
      <4>1. CASE y \in ToSet(rest)
        BY <4>1, <1>3
      <4>2. CASE y \in Excused
        <5>1. y = "cache" /\ h # "cache" /\ Rank(y) = 20
          BY <4>2, <1>5, <2>1, Ranks
        <5>2. Rank(h) \in 1..20 /\ Rank(h) # 20
          BY <5>1, <1>3, Ranks
        <5> QED
          BY <5>1, <5>2
      <4>3. CASE y \in EngineOwned /\ "engine" \in ToSet(rest)
        BY <4>3, <1>3, <1>10
      <4> QED
        BY <4>1, <4>2, <4>3, <1>12
    <3> QED
      BY <3>2, <3>3
  <2> QED
    BY <2>2, <2>3
<1>15. InTurn(releasing, 1, 20)'
  <2>1. /\ rest \in Seq(Layers)
        /\ \A i, j \in DOMAIN rest : i < j => Rank(rest[i]) < Rank(rest[j])
        /\ \A i \in DOMAIN rest : 1 <= Rank(rest[i]) /\ Rank(rest[i]) <= 20
    BY <1>3 DEF InTurn
  <2> QED
    BY <2>1, <1>4 DEF InTurn, Rank, Layers, ParticleLayers, MountLayers, BaseLayers, EngineOwned
<1>16. Falling'
  <2>1. (\A x \in opened \ held : \A y \in held : Rank(x) < Rank(y))'
    BY <1>4, <1>14 DEF Rank
  <2>2. ToSet(rest) \subseteq held' \ Excused
    BY <1>1, <1>3, <1>11 DEF Falling
  <2>3. ToSet(releasing)' = ToSet(rest) /\ EngineOwned' = EngineOwned
    BY <1>4 DEF ToSet, EngineOwned
  <2> QED
    BY <2>1, <2>2, <2>3, <1>5, <1>12, <1>13, <1>15 DEF Falling
<1> QED
  BY <1>4, <1>16 DEF BootInv, Release

\* The steps that are not of the boot leave its invariant alone.
LEMMA BootStutter == BootInv /\ UNCHANGED bootVars => BootInv'
BY DEF BootInv, bootVars, Rising, Falling, Climbed, Its, OfParticle, Excused, InTurn, Rank, Rungs,
       ParticleRungs, Factories, ToSet

\* And every step that is keeps it.
LEMMA BootStep == BootInv /\ [Next]_vars => BootInv'
<1> SUFFICES ASSUME BootInv, [Next]_vars PROVE BootInv'
  OBVIOUS
<1>1. CASE TearDown
  BY <1>1, TearDownKeeps
<1>2. CASE Build
  BY <1>2, RungKeeps
<1>3. CASE GoesWithout
  BY <1>3, WithoutKeeps
<1>4. CASE Fail
  BY <1>4, FailKeeps
<1>5. CASE Release
  BY <1>5, ReleaseKeeps
<1>6. CASE Ended
  BY <1>6 DEF Ended, BootInv, Rising, Falling, Climbed, Its, OfParticle, Excused, InTurn, Rank, Rungs,
       ParticleRungs, Factories, ToSet
<1>7. CASE UNCHANGED bootVars
  BY <1>7, BootStutter
<1> QED
  BY <1>1, <1>2, <1>3, <1>4, <1>5, <1>6, <1>7 DEF Next, vars

\* What a layer is used through goes no earlier than the layer.
LEMMA BuiltOnLasts ==
  ASSUME NEW l \in Layers, NEW b \in Layers, b \in BuiltOn(l)
  PROVE  Rank(l) <= Rank(b)
<1>1. CASE l = "instance"
  <2>1. Rank(l) = 1 /\ Rank(b) \in 1..20
    BY <1>1, Ranks DEF Rank, Order
  <2> QED
    BY <2>1
<1>2. CASE l = "world"
  <2>1. b \in {"engine"} \union {"root", "temp.dir", "temp.root"}
    BY <1>2 DEF BuiltOn, Mounts, ToSet
  <2> QED
    BY <1>2, <2>1 DEF Rank, Order
<1>3. CASE l = "runtime"
  <2>1. b \in {"engine", "kv.fac", "credentials.fac", "oauth.fac", "signing.fac"}
    BY <1>3, BaseInTurn DEF BuiltOn
  <2> QED
    BY <1>3, <2>1 DEF Rank, Order
<1>4. CASE l \in {"engine", "temp.root", "root", "temp.dir", "cache"}
  BY <1>4 DEF BuiltOn, Rank, Order
<1>5. CASE l \notin {"instance", "world", "runtime", "engine", "temp.root", "root", "temp.dir", "cache"}
  <2>1. b = "engine"
    BY <1>5 DEF BuiltOn
  <2>2. Rank(l) \in 1..20 /\ Rank(l) # 20 /\ Rank(b) = 19
    BY <1>5, <2>1, Ranks
  <2> QED
    BY <2>2
<1> QED
  BY <1>1, <1>2, <1>3, <1>4, <1>5

\* The invariant says both properties: what went was ranked before what is held.
LEMMA BootInvNests == BootInv => LayersNest /\ NothingIsLeft
<1> SUFFICES ASSUME BootInv PROVE LayersNest /\ NothingIsLeft
  OBVIOUS
<1>1. CASE stage \in {"booting", "up"}
  BY <1>1 DEF BootInv, Rising, LayersNest, NothingIsLeft
<1>2. CASE stage \in {"closing", "over"}
  <2>1. Falling
    BY <1>2 DEF BootInv
  <2>2. ASSUME NEW l \in held PROVE BuiltOn(l) \intersect opened \subseteq held
    <3> SUFFICES ASSUME NEW b \in BuiltOn(l), b \in opened, b \notin held PROVE FALSE
      OBVIOUS
    <3>1. l \in Layers /\ b \in Layers
      BY DEF BootInv
    <3>2. Rank(b) < Rank(l)
      BY <2>1 DEF Falling
    <3>3. Rank(l) <= Rank(b) /\ Rank(l) \in 1..20 /\ Rank(b) \in 1..20
      BY <3>1, BuiltOnLasts, Ranks
    <3> QED
      BY <3>2, <3>3
  <2>3. releasing # <<>> => Head(releasing) \in held
    <3> SUFFICES ASSUME releasing # <<>> PROVE Head(releasing) \in held
      OBVIOUS
    <3>1. releasing \in Seq(Layers) /\ ToSet(releasing) \subseteq held
      BY <2>1 DEF Falling, InTurn
    <3>2. 1 \in DOMAIN releasing /\ Head(releasing) = releasing[1]
      BY <3>1
    <3> QED
      BY <3>1, <3>2 DEF ToSet
  <2>4. stage = "over" => held = Excused
    <3> SUFFICES ASSUME stage = "over" PROVE held = Excused
      OBVIOUS
    <3>1. releasing = <<>>
      BY DEF BootInv
    <3>2. ToSet(releasing) = {}
      BY <3>1 DEF ToSet
    <3> QED
      BY <2>1, <3>2 DEF Falling
  <2> QED
    BY <2>2, <2>3, <2>4 DEF LayersNest, NothingIsLeft, Excused
<1> QED
  BY <1>1, <1>2 DEF BootInv

\* Whatever fails in a boot or a build, and whenever, no layer is released under one that
\* is held, and none that is not held.
THEOREM TeardownNests == Spec => []LayersNest
<1>1. Init => BootInv
  BY BootStart DEF Init
<1>2. BootInv /\ [Next]_vars => BootInv'
  BY BootStep
<1>3. BootInv => LayersNest
  BY BootInvNests
<1> QED
  BY <1>1, <1>2, <1>3, PTL DEF Spec

\* Whichever list of releases is followed, nothing is left in the end but the compilation
\* cache of a bootParticle that fails before the runtime.
THEOREM TeardownIsWhole == Spec => []NothingIsLeft
<1>1. Init => BootInv
  BY BootStart DEF Init
<1>2. BootInv /\ [Next]_vars => BootInv'
  BY BootStep
<1>3. BootInv => NothingIsLeft
  BY BootInvNests
<1> QED
  BY <1>1, <1>2, <1>3, PTL DEF Spec
=============================================================================
