---------------------------- MODULE HostABIProofs ----------------------------
(***************************************************************************)
(* The bindings' literals and the guest's canonical layout agree, so every  *)
(* argument reaches the implementation and every result the guest.         *)
(*                                                                         *)
(* 1. The literals: each codec's host layout is its canonical one, and its *)
(*    components lie inside it, apart (CodecsSound, FunctionsSound).       *)
(* 2. The recursive functions Finds and ValuesOf: codecs nest to depth six,*)
(*    so six steps reach the fixpoint (FindsAre, ValuesAre).               *)
(* 3. The inductive invariant: what is still to be written lies in blocks  *)
(*    the side was given, no two items in the same place, and however the  *)
(*    writing is completed the reader finds the arguments, or the result   *)
(*    (Arriving).  Each step of writing replaces the first item by others   *)
(*    that imply it (WriteStep).                                           *)
(***************************************************************************)
EXTENDS HostABI, TLAPS

-----------------------------------------------------------------------------
(* Recursive functions.                                                    *)

\* What a recursive function is, when there is one.
LEMMA ValuesFix ==
  ASSUME NEW L, NEW O, NEW g, g = [t \in Codecs |-> ValuesBy(L, O, g, t)]
  PROVE ValuesOf(L, O) = [t \in Codecs |-> ValuesBy(L, O, ValuesOf(L, O), t)]
<1> DEFINE f == CHOOSE f : f = [t \in Codecs |-> ValuesBy(L, O, f, t)]
<1>1. f = [t \in Codecs |-> ValuesBy(L, O, f, t)]
  OBVIOUS
<1>2. ValuesOf(L, O) = f
  BY DEF ValuesOf
<1> QED
  BY <1>1, <1>2

\* The same of what a reader finds.
LEMMA FindsFix ==
  ASSUME NEW S, NEW w, NEW g, g = [t \in Codecs |-> [at \in Nat |-> Found(S, g, t, w, at)]]
  PROVE Finds(S, w) = [t \in Codecs |-> [at \in Nat |-> Found(S, Finds(S, w), t, w, at)]]
<1> DEFINE f == CHOOSE f : f = [t \in Codecs |-> [at \in Nat |-> Found(S, f, t, w, at)]]
<1>1. f = [t \in Codecs |-> [at \in Nat |-> Found(S, f, t, w, at)]]
  OBVIOUS
<1>2. Finds(S, w) = f
  BY DEF Finds
<1> QED
  BY <1>1, <1>2

\* The same of where fields lie.
LEMMA OffsetsFix ==
  ASSUME NEW ts, NEW g, g = [i \in DOMAIN ts |-> IF i = 1 THEN 0 ELSE AlignUp(g[i - 1] + ts[i - 1].size, ts[i].align)]
  PROVE  Offsets(ts) = [i \in DOMAIN ts |-> IF i = 1 THEN 0 ELSE AlignUp(Offsets(ts)[i - 1] + ts[i - 1].size, ts[i].align)]
<1> DEFINE f == CHOOSE f : f = [i \in DOMAIN ts |-> IF i = 1 THEN 0 ELSE AlignUp(f[i - 1] + ts[i - 1].size, ts[i].align)]
<1>1. f = [i \in DOMAIN ts |-> IF i = 1 THEN 0 ELSE AlignUp(f[i - 1] + ts[i - 1].size, ts[i].align)]
  OBVIOUS
<1>2. Offsets(ts) = f
  BY DEF Offsets
<1> QED
  BY <1>1, <1>2

\* The same of the slots of parameters.
LEMMA FirstSlotsFix ==
  ASSUME NEW ts, NEW g, g = [i \in DOMAIN ts |-> IF i = 1 THEN 0 ELSE g[i - 1] + ts[i - 1].guest.slots]
  PROVE  FirstSlots(ts) = [i \in DOMAIN ts |->
                             IF i = 1 THEN 0 ELSE FirstSlots(ts)[i - 1] + ts[i - 1].guest.slots]
<1> DEFINE f == CHOOSE f : f = [i \in DOMAIN ts |-> IF i = 1 THEN 0 ELSE f[i - 1] + ts[i - 1].guest.slots]
<1>1. f = [i \in DOMAIN ts |-> IF i = 1 THEN 0 ELSE f[i - 1] + ts[i - 1].guest.slots]
  OBVIOUS
<1>2. FirstSlots(ts) = f
  BY DEF FirstSlots
<1> QED
  BY <1>1, <1>2

\* Two fields.
LEMMA OffsetsOfTwo ==
  ASSUME NEW a, NEW b, NEW o \in Nat,
         o = AlignUp(0 + a.size, b.align)
  PROVE  Offsets(<<a, b>>) = <<0, o>>
<1> DEFINE ts == <<a, b>>
           g  == <<0, o>>
           At(f, i) == IF i = 1 THEN 0 ELSE AlignUp(f[i - 1] + ts[i - 1].size, ts[i].align)
<1>1. DOMAIN ts = 1..2 /\ ts[1] = a /\ ts[2] = b
  OBVIOUS
<1>2. DOMAIN g = 1..2 /\ g[1] = 0 /\ g[2] = o /\ g = [i \in 1..2 |-> g[i]]
  OBVIOUS
<1>3. \A i \in 1..2 : i = 1 \/ (i = 2 /\ i - 1 = 1)
  OBVIOUS
<1> HIDE DEF ts, g
<1>4. \A i \in 1..2 : At(g, i) = g[i]
  BY <1>1, <1>2, <1>3
<1>5. g = [i \in DOMAIN ts |-> IF i = 1 THEN 0 ELSE AlignUp(g[i - 1] + ts[i - 1].size, ts[i].align)]
  BY <1>1, <1>2, <1>4
<1>6. Offsets(ts) = [i \in DOMAIN ts |->
         IF i = 1 THEN 0 ELSE AlignUp(Offsets(ts)[i - 1] + ts[i - 1].size, ts[i].align)]
  BY ONLY <1>5, OffsetsFix
<1>7. PICK f : f = Offsets(ts)
  OBVIOUS
<1>8. f = [i \in 1..2 |-> At(f, i)]
  BY <1>1, <1>6, <1>7
<1> HIDE DEF At
<1>9. f = [i \in 1..2 |-> f[i]] /\ \A i \in 1..2 : f[i] = At(f, i)
  BY <1>8
<1>10. f[1] = g[1]
  BY <1>9, <1>2 DEF At
<1>11. f[2] = g[2]
  BY <1>9, <1>1, <1>2, <1>10 DEF At
<1>13. f = g
  BY <1>2, <1>3, <1>9, <1>10, <1>11
<1> QED
  BY <1>7, <1>13 DEF ts, g

\* Three fields.
LEMMA OffsetsOfThree ==
  ASSUME NEW a, NEW b, NEW c, NEW o \in Nat, NEW p \in Nat,
         o = AlignUp(0 + a.size, b.align),
         p = AlignUp(o + b.size, c.align)
  PROVE  Offsets(<<a, b, c>>) = <<0, o, p>>
<1> DEFINE ts == <<a, b, c>>
           g  == <<0, o, p>>
           At(f, i) == IF i = 1 THEN 0 ELSE AlignUp(f[i - 1] + ts[i - 1].size, ts[i].align)
<1>1. DOMAIN ts = 1..3 /\ ts[1] = a /\ ts[2] = b /\ ts[3] = c
  OBVIOUS
<1>2. DOMAIN g = 1..3 /\ g[1] = 0 /\ g[2] = o /\ g[3] = p /\ g = [i \in 1..3 |-> g[i]]
  OBVIOUS
<1>3. \A i \in 1..3 : i = 1 \/ (i = 2 /\ i - 1 = 1) \/ (i = 3 /\ i - 1 = 2)
  OBVIOUS
<1> HIDE DEF ts, g
<1>4. \A i \in 1..3 : At(g, i) = g[i]
  BY <1>1, <1>2, <1>3
<1>5. g = [i \in DOMAIN ts |-> IF i = 1 THEN 0 ELSE AlignUp(g[i - 1] + ts[i - 1].size, ts[i].align)]
  BY <1>1, <1>2, <1>4
<1>6. Offsets(ts) = [i \in DOMAIN ts |->
         IF i = 1 THEN 0 ELSE AlignUp(Offsets(ts)[i - 1] + ts[i - 1].size, ts[i].align)]
  BY ONLY <1>5, OffsetsFix
<1>7. PICK f : f = Offsets(ts)
  OBVIOUS
<1>8. f = [i \in 1..3 |-> At(f, i)]
  BY <1>1, <1>6, <1>7
<1> HIDE DEF At
<1>9. f = [i \in 1..3 |-> f[i]] /\ \A i \in 1..3 : f[i] = At(f, i)
  BY <1>8
<1>10. f[1] = g[1]
  BY <1>9, <1>2 DEF At
<1>11. f[2] = g[2]
  BY <1>9, <1>1, <1>2, <1>10 DEF At
<1>12. f[3] = g[3]
  BY <1>9, <1>1, <1>2, <1>11 DEF At
<1>13. f = g
  BY <1>2, <1>3, <1>9, <1>10, <1>11, <1>12
<1> QED
  BY <1>7, <1>13 DEF ts, g

\* One codec takes the first slots.
LEMMA FirstSlotsOfOne ==
  ASSUME NEW a
  PROVE  FirstSlots(<<a>>) = <<0>>
<1> DEFINE ts == <<a>>
           g  == <<0>>
           At(f, i) == IF i = 1 THEN 0 ELSE f[i - 1] + ts[i - 1].guest.slots
<1>1. DOMAIN ts = 1..1 /\ ts[1] = a
  OBVIOUS
<1>2. DOMAIN g = 1..1 /\ g[1] = 0 /\ g = [i \in 1..1 |-> g[i]]
  OBVIOUS
<1>3. \A i \in 1..1 : i = 1 
  OBVIOUS
<1> HIDE DEF ts, g
<1>4. \A i \in 1..1 : At(g, i) = g[i]
  BY <1>1, <1>2, <1>3
<1>5. g = [i \in DOMAIN ts |-> IF i = 1 THEN 0 ELSE g[i - 1] + ts[i - 1].guest.slots]
  BY <1>1, <1>2, <1>4
<1>6. FirstSlots(ts) = [i \in DOMAIN ts |->
         IF i = 1 THEN 0 ELSE FirstSlots(ts)[i - 1] + ts[i - 1].guest.slots]
  BY ONLY <1>5, FirstSlotsFix
<1>7. PICK f : f = FirstSlots(ts)
  OBVIOUS
<1>8. f = [i \in 1..1 |-> At(f, i)]
  BY <1>1, <1>6, <1>7
<1> HIDE DEF At
<1>9. f = [i \in 1..1 |-> f[i]] /\ \A i \in 1..1 : f[i] = At(f, i)
  BY <1>8
<1>10. f[1] = g[1]
  BY <1>9, <1>2 DEF At
<1>13. f = g
  BY <1>2, <1>3, <1>9, <1>10
<1> QED
  BY <1>7, <1>13 DEF ts, g

\* The second one takes those after.
LEMMA FirstSlotsOfTwo ==
  ASSUME NEW a, NEW b, NEW o \in Nat,
         o = 0 + a.guest.slots
  PROVE  FirstSlots(<<a, b>>) = <<0, o>>
<1> DEFINE ts == <<a, b>>
           g  == <<0, o>>
           At(f, i) == IF i = 1 THEN 0 ELSE f[i - 1] + ts[i - 1].guest.slots
<1>1. DOMAIN ts = 1..2 /\ ts[1] = a /\ ts[2] = b
  OBVIOUS
<1>2. DOMAIN g = 1..2 /\ g[1] = 0 /\ g[2] = o /\ g = [i \in 1..2 |-> g[i]]
  OBVIOUS
<1>3. \A i \in 1..2 : i = 1 \/ (i = 2 /\ i - 1 = 1)
  OBVIOUS
<1> HIDE DEF ts, g
<1>4. \A i \in 1..2 : At(g, i) = g[i]
  BY <1>1, <1>2, <1>3
<1>5. g = [i \in DOMAIN ts |-> IF i = 1 THEN 0 ELSE g[i - 1] + ts[i - 1].guest.slots]
  BY <1>1, <1>2, <1>4
<1>6. FirstSlots(ts) = [i \in DOMAIN ts |->
         IF i = 1 THEN 0 ELSE FirstSlots(ts)[i - 1] + ts[i - 1].guest.slots]
  BY ONLY <1>5, FirstSlotsFix
<1>7. PICK f : f = FirstSlots(ts)
  OBVIOUS
<1>8. f = [i \in 1..2 |-> At(f, i)]
  BY <1>1, <1>6, <1>7
<1> HIDE DEF At
<1>9. f = [i \in 1..2 |-> f[i]] /\ \A i \in 1..2 : f[i] = At(f, i)
  BY <1>8
<1>10. f[1] = g[1]
  BY <1>9, <1>2 DEF At
<1>11. f[2] = g[2]
  BY <1>9, <1>1, <1>2, <1>10 DEF At
<1>13. f = g
  BY <1>2, <1>3, <1>9, <1>10, <1>11
<1> QED
  BY <1>7, <1>13 DEF ts, g

\* And the third one those after them.
LEMMA FirstSlotsOfThree ==
  ASSUME NEW a, NEW b, NEW c, NEW o \in Nat, NEW p \in Nat,
         o = 0 + a.guest.slots,
         p = o + b.guest.slots
  PROVE  FirstSlots(<<a, b, c>>) = <<0, o, p>>
<1> DEFINE ts == <<a, b, c>>
           g  == <<0, o, p>>
           At(f, i) == IF i = 1 THEN 0 ELSE f[i - 1] + ts[i - 1].guest.slots
<1>1. DOMAIN ts = 1..3 /\ ts[1] = a /\ ts[2] = b /\ ts[3] = c
  OBVIOUS
<1>2. DOMAIN g = 1..3 /\ g[1] = 0 /\ g[2] = o /\ g[3] = p /\ g = [i \in 1..3 |-> g[i]]
  OBVIOUS
<1>3. \A i \in 1..3 : i = 1 \/ (i = 2 /\ i - 1 = 1) \/ (i = 3 /\ i - 1 = 2)
  OBVIOUS
<1> HIDE DEF ts, g
<1>4. \A i \in 1..3 : At(g, i) = g[i]
  BY <1>1, <1>2, <1>3
<1>5. g = [i \in DOMAIN ts |-> IF i = 1 THEN 0 ELSE g[i - 1] + ts[i - 1].guest.slots]
  BY <1>1, <1>2, <1>4
<1>6. FirstSlots(ts) = [i \in DOMAIN ts |->
         IF i = 1 THEN 0 ELSE FirstSlots(ts)[i - 1] + ts[i - 1].guest.slots]
  BY ONLY <1>5, FirstSlotsFix
<1>7. PICK f : f = FirstSlots(ts)
  OBVIOUS
<1>8. f = [i \in 1..3 |-> At(f, i)]
  BY <1>1, <1>6, <1>7
<1> HIDE DEF At
<1>9. f = [i \in 1..3 |-> f[i]] /\ \A i \in 1..3 : f[i] = At(f, i)
  BY <1>8
<1>10. f[1] = g[1]
  BY <1>9, <1>2 DEF At
<1>11. f[2] = g[2]
  BY <1>9, <1>1, <1>2, <1>10 DEF At
<1>12. f[3] = g[3]
  BY <1>9, <1>1, <1>2, <1>11 DEF At
<1>13. f = g
  BY <1>2, <1>3, <1>9, <1>10, <1>11, <1>12
<1> QED
  BY <1>7, <1>13 DEF ts, g

\* A greatest number of a set.
LEMMA MaxIs ==
  ASSUME NEW S, S \subseteq Nat, NEW m \in S, \A x \in S : x <= m
  PROVE  Max(S) = m
<1>1. \A x \in S : x \in Nat
  OBVIOUS
<1>2. \A x \in S : m >= x
  BY <1>1
<1>3. \A y \in S : (\A x \in S : y >= x) => y = m
  BY <1>1
<1> QED
  BY <1>2, <1>3 DEF Max

-----------------------------------------------------------------------------
(* The literals are those of the canonical ABI.                            *)

Kinds == {"none", "byte", "word", "own", "borrow", "string", "list", "case", "record"}

SoundList(t) ==
  /\ t.elem \in Codecs /\ t.size = 8 /\ t.guest.slots = 2 /\ t.guest.lenAt = 4
  /\ t.guest.align = t.elem.align /\ t.guest.stride = t.elem.size
  /\ t.guest.stride \in {1, 8, 12, 16}
  /\ t.k = "string" => t.elem = U8

SoundCase(t) ==
  /\ t.payloads \in Seq(Codecs) /\ t.guest.at = 4
  /\ \A i \in DOMAIN t.payloads : 4 + t.payloads[i].size <= t.size

SoundRecord(t) ==
  /\ t.fields \in Seq(Codecs) /\ Len(t.fields) \in {2, 3}
  /\ t.guest.offsets \in [DOMAIN t.fields -> Nat]
  /\ \A i \in DOMAIN t.fields : t.guest.offsets[i] + t.fields[i].size <= t.size
  /\ \A i, j \in DOMAIN t.fields :
        i < j => t.guest.offsets[i] + t.fields[i].size <= t.guest.offsets[j]

\* A codec's literals are its canonical layout, and its components lie inside it, apart.
Sound(t) ==
  /\ t.k \in Kinds /\ t.size \in Nat /\ t.align \in {1, 4} /\ t.guest.slots \in Nat
  /\ t.host = t.guest
  /\ t.k = "none" => t = NoPayload
  /\ t.k = "byte" => t.size = 1
  /\ t.k \in {"word", "own"} => t.size = 4
  /\ t.k \in {"byte", "word", "own", "borrow"} => t.guest.slots = 1
  /\ t.k \in {"string", "list"} => SoundList(t)
  /\ t.k = "case" => SoundCase(t)
  /\ t.k = "record" => SoundRecord(t)

\* What the codecs that contain it need to know of one.
Laid(t, size, align, slots) ==
  t \in Codecs /\ Sound(t) /\ t.size = size /\ t.align = align /\ t.guest.slots = slots

\* The codecs that have no components.
LEMMA PlainLaid ==
  /\ Laid(NoPayload, 0, 1, 0) /\ Laid(U8, 1, 1, 1) /\ Laid(U32, 4, 4, 1)
  /\ Laid(Own, 4, 4, 1) /\ Laid(Borrow, 4, 4, 1)
<1>1. {NoPayload, U8, U32, Own, Borrow} \subseteq Codecs
  BY DEF Codecs
<1>2. \A kind, size, align, slots :
         /\ Plain(kind, size, align, slots).k = kind
         /\ Plain(kind, size, align, slots).size = size
         /\ Plain(kind, size, align, slots).align = align
         /\ Plain(kind, size, align, slots).host = Plain(kind, size, align, slots).guest
         /\ Plain(kind, size, align, slots).guest.slots = slots
  BY DEF Plain
<1>3. Laid(NoPayload, 0, 1, 0)
  BY <1>1, <1>2 DEF NoPayload, Laid, Sound, Kinds
<1>4. Laid(U8, 1, 1, 1) /\ Laid(U32, 4, 4, 1)
  BY <1>1, <1>2 DEF U8, U32, Laid, Sound, Kinds
<1>5. Laid(Own, 4, 4, 1) /\ Laid(Borrow, 4, 4, 1)
  BY <1>1, <1>2 DEF Own, Borrow, Laid, Sound, Kinds
<1> QED
  BY <1>3, <1>4, <1>5

\* A list whose literals are its element's size and alignment.
LEMMA ListLaid ==
  ASSUME NEW kind \in {"string", "list"}, NEW e \in Codecs, Sound(e), NEW align, NEW stride,
         e.align = align, e.size = stride, stride \in {1, 8, 12, 16}, kind = "string" => e = U8,
         NEW t \in Codecs, t = ListOf(kind, e, align, stride)
  PROVE  Laid(t, 8, 4, 2)
<1>1. /\ t.k = kind /\ t.elem = e /\ t.size = 8 /\ t.align = 4
      /\ t.guest.align = e.align /\ t.guest.stride = e.size /\ t.guest.lenAt = 4 /\ t.guest.slots = 2
      /\ t.host = t.guest
  BY DEF ListOf
<1> QED
  BY <1>1 DEF Laid, Sound, SoundList, Kinds

\* A case codec with one arm of alignment four.
LEMMA CaseLaid ==
  ASSUME NEW ps \in Seq(Codecs), NEW S \in Nat, NEW N \in Nat, NEW n, NEW t \in Codecs,
         t = CaseCodec(ps, 4, n), n = 1 + N,
         \A i \in DOMAIN ps : Sound(ps[i]) /\ ps[i].size <= S /\ ps[i].guest.slots <= N,
         \E i \in DOMAIN ps : ps[i].align = 4,
         \E i \in DOMAIN ps : ps[i].size = S,
         \E i \in DOMAIN ps : ps[i].guest.slots = N
  PROVE  Laid(t, AlignUp(4 + S, 4), 4, n)
<1>1. \A p \in ToSet(ps) : /\ p.align \in {1, 4} /\ p.size \in Nat /\ p.guest.slots \in Nat
                           /\ p.size <= S /\ p.guest.slots <= N
  BY DEF ToSet, Sound
<1>2. Widest(ps) = 4
  <2>1. 4 \in {c.align : c \in ToSet(ps)}
    BY DEF ToSet
  <2>2. \A x \in {c.align : c \in ToSet(ps)} : x \in Nat /\ x <= 4
    BY <1>1
  <2> QED
    BY <2>1, <2>2, MaxIs DEF Widest
<1>3. Largest(ps) = S
  <2>1. S \in {c.size : c \in ToSet(ps)}
    BY DEF ToSet
  <2>2. \A x \in {c.size : c \in ToSet(ps)} : x \in Nat /\ x <= S
    BY <1>1
  <2> QED
    BY <2>1, <2>2, MaxIs DEF Largest
<1>4. MostSlots(ps) = N
  <2>1. N \in {c.guest.slots : c \in ToSet(ps)}
    BY DEF ToSet
  <2>2. \A x \in {c.guest.slots : c \in ToSet(ps)} : x \in Nat /\ x <= N
    BY <1>1
  <2> QED
    BY <2>1, <2>2, MaxIs DEF MostSlots
<1>5. AlignUp(1, 4) = 4
  BY DEF AlignUp
<1>6. /\ t.k = "case" /\ t.payloads = ps /\ t.align = 4 /\ t.size = AlignUp(4 + S, 4)
      /\ t.guest.at = 4 /\ t.guest.slots = n /\ t.host = t.guest
  BY <1>2, <1>3, <1>4, <1>5 DEF CaseCodec
<1>7. AlignUp(4 + S, 4) \in Nat /\ AlignUp(4 + S, 4) >= 4 + S
  BY DEF AlignUp
<1>8. \A i \in DOMAIN ps : 4 + ps[i].size <= t.size
  BY <1>6, <1>7 DEF Sound
<1> QED
  BY <1>6, <1>7, <1>8 DEF Laid, Sound, SoundCase, Kinds

\* The same, of two arms and of three.
LEMMA TwoArms ==
  ASSUME NEW p \in Codecs, NEW q \in Codecs, Sound(p), Sound(q), NEW n, NEW size, NEW t \in Codecs,
         t = CaseCodec(<<p, q>>, 4, n), p.align = 4 \/ q.align = 4,
         \/ n = 1 + p.guest.slots /\ q.guest.slots <= p.guest.slots
         \/ n = 1 + q.guest.slots /\ p.guest.slots <= q.guest.slots,
         \/ size = AlignUp(4 + p.size, 4) /\ q.size <= p.size
         \/ size = AlignUp(4 + q.size, 4) /\ p.size <= q.size
  PROVE  Laid(t, size, 4, n)
<1>1. PICK ps \in Seq(Codecs) : ps = <<p, q>>
  <2>1. <<p, q>> \in Seq(Codecs)
    OBVIOUS
  <2> QED
    BY <2>1
<1>2. DOMAIN ps = 1..2 /\ ps[1] = p /\ ps[2] = q
  BY <1>1
<1>3. PICK S \in {p.size, q.size} : p.size <= S /\ q.size <= S /\ size = AlignUp(4 + S, 4)
  BY DEF Sound
<1>4. PICK N \in {p.guest.slots, q.guest.slots} :
         p.guest.slots <= N /\ q.guest.slots <= N /\ n = 1 + N
  BY DEF Sound
<1>5. S \in Nat /\ N \in Nat
  BY DEF Sound
<1>6. \A i \in DOMAIN ps : Sound(ps[i]) /\ ps[i].size <= S /\ ps[i].guest.slots <= N
  BY <1>2, <1>3, <1>4
<1>7. /\ \E i \in DOMAIN ps : ps[i].align = 4
      /\ \E i \in DOMAIN ps : ps[i].size = S
      /\ \E i \in DOMAIN ps : ps[i].guest.slots = N
  BY <1>2
<1> QED
  BY <1>1, <1>3, <1>4, <1>5, <1>6, <1>7, CaseLaid

\* A case of three arms, one of which is the widest in every way.
LEMMA ThreeArms ==
  ASSUME NEW p \in Codecs, NEW q \in Codecs, NEW r \in Codecs, Sound(p), Sound(q), Sound(r),
         NEW n, NEW size, NEW t \in Codecs, t = CaseCodec(<<p, q, r>>, 4, n),
         \E big \in {p, q, r} :
            /\ big.align = 4 /\ n = 1 + big.guest.slots /\ size = AlignUp(4 + big.size, 4)
            /\ \A x \in {p, q, r} : x.size <= big.size /\ x.guest.slots <= big.guest.slots
  PROVE  Laid(t, size, 4, n)
<1>1. PICK ps \in Seq(Codecs) : ps = <<p, q, r>>
  <2>1. <<p, q, r>> \in Seq(Codecs)
    OBVIOUS
  <2> QED
    BY <2>1
<1>2. DOMAIN ps = 1..3 /\ ps[1] = p /\ ps[2] = q /\ ps[3] = r
  BY <1>1
<1>3. PICK big \in {p, q, r} :
            /\ big.align = 4 /\ n = 1 + big.guest.slots /\ size = AlignUp(4 + big.size, 4)
            /\ \A x \in {p, q, r} : x.size <= big.size /\ x.guest.slots <= big.guest.slots
  OBVIOUS
<1>4. PICK S \in Nat, N \in Nat : S = big.size /\ N = big.guest.slots
  BY DEF Sound
<1>5. \A i \in DOMAIN ps : Sound(ps[i]) /\ ps[i].size <= S /\ ps[i].guest.slots <= N
  BY <1>2, <1>3, <1>4
<1>6. /\ \E i \in DOMAIN ps : ps[i].align = 4
      /\ \E i \in DOMAIN ps : ps[i].size = S
      /\ \E i \in DOMAIN ps : ps[i].guest.slots = N
  BY <1>2, <1>3, <1>4
<1>7. n = 1 + N /\ size = AlignUp(4 + S, 4)
  BY <1>3, <1>4
<1> QED
  BY <1>1, <1>5, <1>6, <1>7, CaseLaid

\* The numbers a sound codec has.
LEMMA SoundHas ==
  ASSUME NEW t, Sound(t)
  PROVE  t.size \in Nat /\ t.align \in {1, 4} /\ t.guest.slots \in Nat
BY DEF Sound

\* A number rounded up is no smaller.
LEMMA AlignUpIs ==
  ASSUME NEW n \in Nat, NEW a \in {1, 4}
  PROVE  AlignUp(n, a) \in Nat /\ AlignUp(n, a) >= n /\ AlignUp(n, a) % a = 0
<1>1. CASE a = 1
  BY <1>1 DEF AlignUp
<1>2. CASE a = 4
  BY <1>2 DEF AlignUp
<1> QED
  BY <1>1, <1>2

\* A record's alignment is four if a field's is.
LEMMA WidestIsFour ==
  ASSUME NEW fs, \A f \in ToSet(fs) : Sound(f), \E f \in ToSet(fs) : f.align = 4
  PROVE  Widest(fs) = 4
<1>1. 4 \in {c.align : c \in ToSet(fs)}
  OBVIOUS
<1>2. \A x \in {c.align : c \in ToSet(fs)} : x \in Nat /\ x <= 4
  BY DEF Sound
<1> QED
  BY <1>1, <1>2, MaxIs DEF Widest

\* Records of two fields and of three.
LEMMA TwoFields ==
  ASSUME NEW a \in Codecs, NEW b \in Codecs, Sound(a), Sound(b), a.align = 4 \/ b.align = 4,
         NEW o \in Nat, NEW slots, NEW size, NEW t \in Codecs,
         t = RecordCodec(<<a, b>>, <<0, o>>, slots),
         o = AlignUp(0 + a.size, b.align), slots = a.guest.slots + b.guest.slots,
         size = AlignUp(o + b.size, 4)
  PROVE  Laid(t, size, 4, slots)
<1>1. PICK fs \in Seq(Codecs), os \in Seq(Nat) : fs = <<a, b>> /\ os = <<0, o>>
  <2>1. <<a, b>> \in Seq(Codecs) /\ <<0, o>> \in Seq(Nat)
    OBVIOUS
  <2> QED
    BY <2>1
<1>2. /\ Len(fs) = 2 /\ DOMAIN fs = 1..2 /\ fs[1] = a /\ fs[2] = b /\ ToSet(fs) = {a, b}
      /\ DOMAIN os = 1..2 /\ os[1] = 0 /\ os[2] = o
  BY <1>1 DEF ToSet
<1>3. Offsets(fs) = os
  BY <1>1, OffsetsOfTwo
<1>4. FirstSlots(fs)[2] = a.guest.slots
  <2>1. PICK m \in Nat : m = a.guest.slots /\ m = 0 + a.guest.slots
    BY DEF Sound
  <2>2. FirstSlots(<<a, b>>) = <<0, m>>
    BY <2>1, FirstSlotsOfTwo
  <2> QED
    BY <1>1, <2>1, <2>2
<1>5. Widest(fs) = 4
  BY <1>2, WidestIsFour
<1>6. /\ t.k = "record" /\ t.fields = fs /\ t.align = 4 /\ t.size = size
      /\ t.guest.offsets = os /\ t.guest.slots = slots /\ t.host = t.guest
  BY <1>1, <1>2, <1>3, <1>4, <1>5 DEF RecordCodec
<1>7. a.size \in Nat /\ b.size \in Nat /\ a.align \in {1, 4} /\ b.align \in {1, 4} /\ slots \in Nat
  <2>1. a.size \in Nat /\ a.guest.slots \in Nat /\ a.align \in {1, 4}
    BY ONLY Sound(a), SoundHas
  <2>2. b.size \in Nat /\ b.guest.slots \in Nat /\ b.align \in {1, 4}
    BY ONLY Sound(b), SoundHas
  <2> QED
    BY ONLY <2>1, <2>2, slots = a.guest.slots + b.guest.slots
<1>8. a.size <= o /\ o + b.size <= size /\ size \in Nat
  <2>1. 0 + a.size = a.size /\ o + b.size \in Nat
    BY <1>7
  <2> QED
    BY <1>7, <2>1, AlignUpIs
<1>9. SoundRecord(t)
  <2>1. os \in [DOMAIN fs -> Nat]
    BY <1>2
  <2>2. \A i \in DOMAIN fs : os[i] + fs[i].size <= size
    BY <1>2, <1>7, <1>8
  <2>3. \A i, j \in DOMAIN fs : i < j => os[i] + fs[i].size <= os[j]
    BY <1>2, <1>7, <1>8
  <2>4. t.fields = fs /\ t.guest.offsets = os /\ t.size = size
    BY <1>6
  <2>5. t.guest.offsets \in [DOMAIN t.fields -> Nat] /\ Len(t.fields) \in {2, 3}
    BY <1>2, <2>1, <2>4
  <2>6. \A i \in DOMAIN t.fields : t.guest.offsets[i] + t.fields[i].size <= t.size
    BY ONLY <2>2, <2>4
  <2>7. \A i, j \in DOMAIN t.fields :
           i < j => t.guest.offsets[i] + t.fields[i].size <= t.guest.offsets[j]
    BY ONLY <2>3, <2>4
  <2> QED
    BY <2>4, <2>5, <2>6, <2>7 DEF SoundRecord
<1> QED
  BY <1>6, <1>7, <1>8, <1>9 DEF Laid, Sound, Kinds

\* A record of three fields.
LEMMA ThreeFields ==
  ASSUME NEW a \in Codecs, NEW b \in Codecs, NEW c \in Codecs, Sound(a), Sound(b), Sound(c),
         a.align = 4 \/ b.align = 4 \/ c.align = 4,
         NEW o \in Nat, NEW p \in Nat, NEW slots, NEW size, NEW t \in Codecs,
         t = RecordCodec(<<a, b, c>>, <<0, o, p>>, slots),
         o = AlignUp(0 + a.size, b.align), p = AlignUp(o + b.size, c.align),
         slots = a.guest.slots + b.guest.slots + c.guest.slots, size = AlignUp(p + c.size, 4)
  PROVE  Laid(t, size, 4, slots)
<1>1. PICK fs \in Seq(Codecs), os \in Seq(Nat) : fs = <<a, b, c>> /\ os = <<0, o, p>>
  <2>1. <<a, b, c>> \in Seq(Codecs) /\ <<0, o, p>> \in Seq(Nat)
    OBVIOUS
  <2> QED
    BY <2>1
<1>2. /\ Len(fs) = 3 /\ DOMAIN fs = 1..3 /\ fs[1] = a /\ fs[2] = b /\ fs[3] = c
      /\ ToSet(fs) = {a, b, c} /\ DOMAIN os = 1..3 /\ os[1] = 0 /\ os[2] = o /\ os[3] = p
  BY <1>1 DEF ToSet
<1>3. Offsets(fs) = os
  BY <1>1, OffsetsOfThree
<1>4. FirstSlots(fs)[3] = a.guest.slots + b.guest.slots
  <2>1. PICK m \in Nat : m = a.guest.slots /\ m = 0 + a.guest.slots
    <3>1. a.guest.slots \in Nat
      BY ONLY Sound(a), SoundHas
    <3> QED
      BY ONLY <3>1
  <2>2. PICK n \in Nat : n = m + b.guest.slots
    <3>1. b.guest.slots \in Nat
      BY ONLY Sound(b), SoundHas
    <3> QED
      BY ONLY <2>1, <3>1
  <2>3. FirstSlots(<<a, b, c>>) = <<0, m, n>>
    BY ONLY <2>1, <2>2, FirstSlotsOfThree
  <2> QED
    BY <1>1, <2>1, <2>2, <2>3
<1>5. Widest(fs) = 4
  BY <1>2, WidestIsFour
<1>6. /\ t.k = "record" /\ t.fields = fs /\ t.align = 4 /\ t.size = size
      /\ t.guest.offsets = os /\ t.guest.slots = slots /\ t.host = t.guest
  BY <1>1, <1>2, <1>3, <1>4, <1>5 DEF RecordCodec
<1>7. /\ a.size \in Nat /\ b.size \in Nat /\ c.size \in Nat /\ b.align \in {1, 4}
      /\ c.align \in {1, 4} /\ slots \in Nat
  <2>1. a.size \in Nat /\ a.guest.slots \in Nat
    BY ONLY Sound(a), SoundHas
  <2>2. b.size \in Nat /\ b.guest.slots \in Nat /\ b.align \in {1, 4}
    BY ONLY Sound(b), SoundHas
  <2>3. c.size \in Nat /\ c.guest.slots \in Nat /\ c.align \in {1, 4}
    BY ONLY Sound(c), SoundHas
  <2> QED
    <3>1. slots \in Nat
      BY ONLY <2>1, <2>2, <2>3, slots = a.guest.slots + b.guest.slots + c.guest.slots, SMTT(30)
    <3> QED
      BY ONLY <2>1, <2>2, <2>3, <3>1
<1>8. a.size <= o /\ o + b.size <= p /\ p + c.size <= size /\ size \in Nat
  <2>1. 0 + a.size = a.size /\ o + b.size \in Nat /\ p + c.size \in Nat
    BY ONLY <1>7, o \in Nat, p \in Nat
  <2> QED
    BY <1>7, <2>1, AlignUpIs
<1>9. SoundRecord(t)
  <2>1. os \in [DOMAIN fs -> Nat]
    BY <1>2
  <2>2. \A i \in DOMAIN fs : os[i] + fs[i].size <= size
    BY <1>2, <1>7, <1>8, SMTT(30)
  <2>3. \A i, j \in DOMAIN fs : i < j => os[i] + fs[i].size <= os[j]
    BY <1>2, <1>7, <1>8
  <2>4. t.fields = fs /\ t.guest.offsets = os /\ t.size = size
    BY <1>6
  <2>5. t.guest.offsets \in [DOMAIN t.fields -> Nat] /\ Len(t.fields) \in {2, 3}
    BY <1>2, <2>1, <2>4
  <2>6. \A i \in DOMAIN t.fields : t.guest.offsets[i] + t.fields[i].size <= t.size
    BY ONLY <2>2, <2>4
  <2>7. \A i, j \in DOMAIN t.fields :
           i < j => t.guest.offsets[i] + t.fields[i].size <= t.guest.offsets[j]
    BY ONLY <2>3, <2>4
  <2> QED
    BY <2>4, <2>5, <2>6, <2>7 DEF SoundRecord
<1> QED
  BY <1>6, <1>7, <1>8, <1>9 DEF Laid, Sound, Kinds

\* The sizes of case codecs.
LEMMA Ups ==
  /\ AlignUp(4 + 8, 4) = 12
  /\ AlignUp(4 + 12, 4) = 16
  /\ AlignUp(4 + 36, 4) = 40
BY DEF AlignUp

\* Every named codec is one of Codecs.
LEMMA Named ==
  /\ KvString \in Codecs /\ KvListString \in Codecs /\ KvOptionString \in Codecs
  /\ KvError \in Codecs /\ KvResult_Error \in Codecs /\ KvResultOptionString \in Codecs
  /\ KvResultListString \in Codecs /\ CredString \in Codecs /\ CredOptionString \in Codecs
  /\ ApplyKind \in Codecs /\ ApplySpec \in Codecs /\ PlaceholderInfo \in Codecs
  /\ CredentialError \in Codecs /\ CredResultOptionString \in Codecs /\ CredResultPlaceholderInfo \in Codecs
  /\ CredResultString \in Codecs /\ OauthString \in Codecs /\ OauthError \in Codecs
  /\ OauthResult_Error \in Codecs /\ SigningString \in Codecs /\ SigningListU8 \in Codecs
  /\ SigningError \in Codecs /\ SigningResultBool \in Codecs /\ SigningResultListU8 \in Codecs
  /\ DyldString \in Codecs /\ PreloadedSymbol \in Codecs /\ ListPreloadedSymbol \in Codecs
  /\ PreloadedLibrary \in Codecs /\ ListPreloadedLibrary \in Codecs /\ DyldError \in Codecs
  /\ ResultLibraryDyldError \in Codecs /\ ResultU32String \in Codecs /\ Result_String \in Codecs
  /\ LibffiString \in Codecs /\ LibffiListU8 \in Codecs /\ LibffiError \in Codecs
  /\ ResultU32LibffiError \in Codecs /\ Result_LibffiError \in Codecs /\ LogString \in Codecs
BY DEF Codecs

\* The same, of components that are known.
LEMMA CaseOfTwo ==
  ASSUME NEW t, NEW p, NEW q, NEW sp, NEW ap, NEW np, NEW sq, NEW aq, NEW nq, NEW n, NEW size,
         Laid(p, sp, ap, np), Laid(q, sq, aq, nq),
         t \in Codecs, t = CaseCodec(<<p, q>>, 4, n), ap = 4 \/ aq = 4,
         \/ n = 1 + np /\ nq <= np
         \/ n = 1 + nq /\ np <= nq,
         \/ size = AlignUp(4 + sp, 4) /\ sq <= sp
         \/ size = AlignUp(4 + sq, 4) /\ sp <= sq
  PROVE  Laid(t, size, 4, n)
<1>1. /\ p \in Codecs /\ Sound(p) /\ p.size = sp /\ p.align = ap /\ p.guest.slots = np
      /\ q \in Codecs /\ Sound(q) /\ q.size = sq /\ q.align = aq /\ q.guest.slots = nq
  BY DEF Laid
<1> QED
  BY <1>1, TwoArms

\* A case of a string and of arms that are strings or nothing: an error.
LEMMA ErrorOfThree ==
  ASSUME NEW t, NEW p, NEW q, NEW r, t \in Codecs, t = CaseCodec(<<p, q, r>>, 4, 3),
         \A a \in {p, q, r} : a = NoPayload \/ Laid(a, 8, 4, 2),
         \E a \in {p, q, r} : Laid(a, 8, 4, 2)
  PROVE  Laid(t, 12, 4, 3)
<1>1. PICK big \in {p, q, r} : Laid(big, 8, 4, 2)
  OBVIOUS
<1>2. /\ big \in Codecs /\ Sound(big) /\ big.align = 4 /\ 3 = 1 + big.guest.slots
      /\ 12 = AlignUp(4 + big.size, 4)
  BY <1>1, Ups DEF Laid
<1>3. \A a \in {p, q, r} :
         a \in Codecs /\ Sound(a) /\ a.size <= big.size /\ a.guest.slots <= big.guest.slots
  BY <1>1, PlainLaid DEF Laid
<1>4. /\ p \in Codecs /\ q \in Codecs /\ r \in Codecs /\ Sound(p) /\ Sound(q) /\ Sound(r)
  BY <1>3
<1> QED
  BY <1>2, <1>3, <1>4, ThreeArms

\* The codecs of particle:host/kv.
LEMMA KvLaid ==
  /\ Laid(KvString, 8, 4, 2)
  /\ Laid(KvListString, 8, 4, 2)
  /\ Laid(KvOptionString, 12, 4, 3)
  /\ Laid(KvError, 12, 4, 3)
  /\ Laid(KvResult_Error, 16, 4, 4)
  /\ Laid(KvResultOptionString, 16, 4, 4)
  /\ Laid(KvResultListString, 16, 4, 4)
<1>1. Laid(KvString, 8, 4, 2)
  <2>1. KvString \in Codecs
    BY Named
  <2> QED
    BY <2>1, PlainLaid, ListLaid DEF KvString, StringCodec, Laid
<1>2. Laid(KvListString, 8, 4, 2)
  <2>1. KvListString \in Codecs
    BY Named
  <2> QED
    BY <2>1, PlainLaid, ListLaid, <1>1 DEF KvListString, ListCodec, Laid
<1>3. Laid(KvOptionString, 12, 4, 3)
  <2>1. KvOptionString = CaseCodec(<<NoPayload, KvString>>, 4, 3) /\ KvOptionString \in Codecs
    BY Named DEF KvOptionString
  <2> QED
    BY <2>1, PlainLaid, Ups, CaseOfTwo, <1>1
<1>4. Laid(KvError, 12, 4, 3)
  <2>1. KvError = CaseCodec(<<KvString, NoPayload, NoPayload>>, 4, 3) /\ KvError \in Codecs
    BY Named DEF KvError
  <2> QED
    BY <2>1, <1>1, ErrorOfThree
<1>5. Laid(KvResult_Error, 16, 4, 4)
  <2>1. KvResult_Error = CaseCodec(<<NoPayload, KvError>>, 4, 4) /\ KvResult_Error \in Codecs
    BY Named DEF KvResult_Error
  <2> QED
    BY <2>1, PlainLaid, Ups, CaseOfTwo, <1>4
<1>6. Laid(KvResultOptionString, 16, 4, 4)
  <2>1. KvResultOptionString = CaseCodec(<<KvOptionString, KvError>>, 4, 4) /\ KvResultOptionString \in Codecs
    BY Named DEF KvResultOptionString
  <2> QED
    BY <2>1, PlainLaid, Ups, CaseOfTwo, <1>3, <1>4
<1>7. Laid(KvResultListString, 16, 4, 4)
  <2>1. KvResultListString = CaseCodec(<<KvListString, KvError>>, 4, 4) /\ KvResultListString \in Codecs
    BY Named DEF KvResultListString
  <2> QED
    BY <2>1, PlainLaid, Ups, CaseOfTwo, <1>2, <1>4
<1> QED
  BY <1>1, <1>2, <1>3, <1>4, <1>5, <1>6, <1>7

\* The codecs of particle:host/credentials.
LEMMA CredLaid ==
  /\ Laid(CredString, 8, 4, 2)
  /\ Laid(CredOptionString, 12, 4, 3)
  /\ Laid(ApplyKind, 1, 1, 1)
  /\ Laid(ApplySpec, 28, 4, 7)
  /\ Laid(PlaceholderInfo, 36, 4, 9)
  /\ Laid(CredentialError, 12, 4, 3)
  /\ Laid(CredResultOptionString, 16, 4, 4)
  /\ Laid(CredResultPlaceholderInfo, 40, 4, 10)
  /\ Laid(CredResultString, 16, 4, 4)
<1>1. Laid(CredString, 8, 4, 2)
  <2>1. CredString \in Codecs
    BY Named
  <2> QED
    BY <2>1, PlainLaid, ListLaid DEF CredString, StringCodec, Laid
<1>2. Laid(CredOptionString, 12, 4, 3)
  <2>1. CredOptionString = CaseCodec(<<NoPayload, CredString>>, 4, 3) /\ CredOptionString \in Codecs
    BY Named DEF CredOptionString
  <2> QED
    BY <2>1, PlainLaid, Ups, CaseOfTwo, <1>1
<1>3. Laid(ApplyKind, 1, 1, 1)
  BY PlainLaid DEF ApplyKind
<1>4. Laid(ApplySpec, 28, 4, 7)
  <2>1. /\ 4 = AlignUp(0 + ApplyKind.size, CredOptionString.align)
        /\ 16 = AlignUp(4 + CredOptionString.size, CredOptionString.align)
        /\ 28 = AlignUp(16 + CredOptionString.size, 4)
        /\ 7 = ApplyKind.guest.slots + CredOptionString.guest.slots + CredOptionString.guest.slots
    BY <1>2, <1>3 DEF Laid, AlignUp
  <2>2. ApplySpec = RecordCodec(<<ApplyKind, CredOptionString, CredOptionString>>, <<0, 4, 16>>, 7)
    BY DEF ApplySpec
  <2> QED
    BY <2>1, <2>2, Named, ThreeFields, <1>2, <1>3, SMTT(30) DEF Laid
<1>5. Laid(PlaceholderInfo, 36, 4, 9)
  <2>1. PlaceholderInfo \in Codecs
    BY Named
  <2> QED
    BY <2>1, PlainLaid, TwoFields, <1>1, <1>4 DEF PlaceholderInfo, Laid, AlignUp
<1>6. Laid(CredentialError, 12, 4, 3)
  <2>1. CredentialError = CaseCodec(<<NoPayload, CredString, CredString>>, 4, 3) /\ CredentialError \in Codecs
    BY Named DEF CredentialError
  <2> QED
    BY <2>1, <1>1, ErrorOfThree
<1>7. Laid(CredResultOptionString, 16, 4, 4)
  <2>1. CredResultOptionString = CaseCodec(<<CredOptionString, CredentialError>>, 4, 4) /\ CredResultOptionString \in Codecs
    BY Named DEF CredResultOptionString
  <2> QED
    BY <2>1, PlainLaid, Ups, CaseOfTwo, <1>2, <1>6
<1>8. Laid(CredResultPlaceholderInfo, 40, 4, 10)
  <2>1. CredResultPlaceholderInfo = CaseCodec(<<PlaceholderInfo, CredentialError>>, 4, 10) /\ CredResultPlaceholderInfo \in Codecs
    BY Named DEF CredResultPlaceholderInfo
  <2> QED
    BY <2>1, PlainLaid, Ups, CaseOfTwo, <1>5, <1>6
<1>9. Laid(CredResultString, 16, 4, 4)
  <2>1. CredResultString = CaseCodec(<<CredString, CredentialError>>, 4, 4) /\ CredResultString \in Codecs
    BY Named DEF CredResultString
  <2> QED
    BY <2>1, PlainLaid, Ups, CaseOfTwo, <1>1, <1>6
<1> QED
  BY <1>1, <1>2, <1>3, <1>4, <1>5, <1>6, <1>7, <1>8, <1>9

\* The codecs of particle:host/oauth.
LEMMA OauthLaid ==
  /\ Laid(OauthString, 8, 4, 2)
  /\ Laid(OauthError, 12, 4, 3)
  /\ Laid(OauthResult_Error, 16, 4, 4)
<1>1. Laid(OauthString, 8, 4, 2)
  <2>1. OauthString \in Codecs
    BY Named
  <2> QED
    BY <2>1, PlainLaid, ListLaid DEF OauthString, StringCodec, Laid
<1>2. Laid(OauthError, 12, 4, 3)
  <2>1. OauthError = CaseCodec(<<NoPayload, NoPayload, OauthString>>, 4, 3) /\ OauthError \in Codecs
    BY Named DEF OauthError
  <2> QED
    BY <2>1, <1>1, ErrorOfThree
<1>3. Laid(OauthResult_Error, 16, 4, 4)
  <2>1. OauthResult_Error = CaseCodec(<<NoPayload, OauthError>>, 4, 4) /\ OauthResult_Error \in Codecs
    BY Named DEF OauthResult_Error
  <2> QED
    BY <2>1, PlainLaid, Ups, CaseOfTwo, <1>2
<1> QED
  BY <1>1, <1>2, <1>3

\* The codecs of particle:host/signing.
LEMMA SigningLaid ==
  /\ Laid(SigningString, 8, 4, 2)
  /\ Laid(SigningListU8, 8, 4, 2)
  /\ Laid(SigningError, 12, 4, 3)
  /\ Laid(SigningResultBool, 16, 4, 4)
  /\ Laid(SigningResultListU8, 16, 4, 4)
<1>1. Laid(SigningString, 8, 4, 2)
  <2>1. SigningString \in Codecs
    BY Named
  <2> QED
    BY <2>1, PlainLaid, ListLaid DEF SigningString, StringCodec, Laid
<1>2. Laid(SigningListU8, 8, 4, 2)
  <2>1. SigningListU8 \in Codecs
    BY Named
  <2> QED
    BY <2>1, PlainLaid, ListLaid DEF SigningListU8, ListCodec, Laid
<1>3. Laid(SigningError, 12, 4, 3)
  <2>1. SigningError = CaseCodec(<<NoPayload, NoPayload, SigningString>>, 4, 3) /\ SigningError \in Codecs
    BY Named DEF SigningError
  <2> QED
    BY <2>1, <1>1, ErrorOfThree
<1>4. Laid(SigningResultBool, 16, 4, 4)
  <2>1. SigningResultBool = CaseCodec(<<U8, SigningError>>, 4, 4) /\ SigningResultBool \in Codecs
    BY Named DEF SigningResultBool
  <2> QED
    BY <2>1, PlainLaid, Ups, CaseOfTwo, <1>3
<1>5. Laid(SigningResultListU8, 16, 4, 4)
  <2>1. SigningResultListU8 = CaseCodec(<<SigningListU8, SigningError>>, 4, 4) /\ SigningResultListU8 \in Codecs
    BY Named DEF SigningResultListU8
  <2> QED
    BY <2>1, PlainLaid, Ups, CaseOfTwo, <1>2, <1>3
<1> QED
  BY <1>1, <1>2, <1>3, <1>4, <1>5

\* The codecs of particle:host/dyld.
LEMMA DyldLaid ==
  /\ Laid(DyldString, 8, 4, 2)
  /\ Laid(PreloadedSymbol, 12, 4, 3)
  /\ Laid(ListPreloadedSymbol, 8, 4, 2)
  /\ Laid(PreloadedLibrary, 16, 4, 4)
  /\ Laid(ListPreloadedLibrary, 8, 4, 2)
  /\ Laid(DyldError, 12, 4, 3)
  /\ Laid(ResultLibraryDyldError, 16, 4, 4)
  /\ Laid(ResultU32String, 12, 4, 3)
  /\ Laid(Result_String, 12, 4, 3)
<1>1. Laid(DyldString, 8, 4, 2)
  <2>1. DyldString \in Codecs
    BY Named
  <2> QED
    BY <2>1, PlainLaid, ListLaid DEF DyldString, StringCodec, Laid
<1>2. Laid(PreloadedSymbol, 12, 4, 3)
  <2>1. PreloadedSymbol \in Codecs
    BY Named
  <2> QED
    BY <2>1, PlainLaid, TwoFields, <1>1 DEF PreloadedSymbol, Laid, AlignUp
<1>3. Laid(ListPreloadedSymbol, 8, 4, 2)
  <2>1. ListPreloadedSymbol \in Codecs
    BY Named
  <2> QED
    BY <2>1, PlainLaid, ListLaid, <1>2 DEF ListPreloadedSymbol, ListCodec, Laid
<1>4. Laid(PreloadedLibrary, 16, 4, 4)
  <2>1. PreloadedLibrary \in Codecs
    BY Named
  <2> QED
    BY <2>1, PlainLaid, TwoFields, <1>1, <1>3 DEF PreloadedLibrary, Laid, AlignUp
<1>5. Laid(ListPreloadedLibrary, 8, 4, 2)
  <2>1. ListPreloadedLibrary \in Codecs
    BY Named
  <2> QED
    BY <2>1, PlainLaid, ListLaid, <1>4 DEF ListPreloadedLibrary, ListCodec, Laid
<1>6. Laid(DyldError, 12, 4, 3)
  <2>1. DyldError = CaseCodec(<<NoPayload, DyldString>>, 4, 3) /\ DyldError \in Codecs
    BY Named DEF DyldError
  <2> QED
    BY <2>1, PlainLaid, Ups, CaseOfTwo, <1>1
<1>7. Laid(ResultLibraryDyldError, 16, 4, 4)
  <2>1. ResultLibraryDyldError = CaseCodec(<<Own, DyldError>>, 4, 4) /\ ResultLibraryDyldError \in Codecs
    BY Named DEF ResultLibraryDyldError
  <2> QED
    BY <2>1, PlainLaid, Ups, CaseOfTwo, <1>6
<1>8. Laid(ResultU32String, 12, 4, 3)
  <2>1. ResultU32String = CaseCodec(<<U32, DyldString>>, 4, 3) /\ ResultU32String \in Codecs
    BY Named DEF ResultU32String
  <2> QED
    BY <2>1, PlainLaid, Ups, CaseOfTwo, <1>1
<1>9. Laid(Result_String, 12, 4, 3)
  <2>1. Result_String = CaseCodec(<<NoPayload, DyldString>>, 4, 3) /\ Result_String \in Codecs
    BY Named DEF Result_String
  <2> QED
    BY <2>1, PlainLaid, Ups, CaseOfTwo, <1>1
<1> QED
  BY <1>1, <1>2, <1>3, <1>4, <1>5, <1>6, <1>7, <1>8, <1>9

\* The codecs of particle:host/libffi.
LEMMA LibffiLaid ==
  /\ Laid(LibffiString, 8, 4, 2)
  /\ Laid(LibffiListU8, 8, 4, 2)
  /\ Laid(LibffiError, 12, 4, 3)
  /\ Laid(ResultU32LibffiError, 16, 4, 4)
  /\ Laid(Result_LibffiError, 16, 4, 4)
<1>1. Laid(LibffiString, 8, 4, 2)
  <2>1. LibffiString \in Codecs
    BY Named
  <2> QED
    BY <2>1, PlainLaid, ListLaid DEF LibffiString, StringCodec, Laid
<1>2. Laid(LibffiListU8, 8, 4, 2)
  <2>1. LibffiListU8 \in Codecs
    BY Named
  <2> QED
    BY <2>1, PlainLaid, ListLaid DEF LibffiListU8, ListCodec, Laid
<1>3. Laid(LibffiError, 12, 4, 3)
  <2>1. LibffiError = CaseCodec(<<LibffiString, NoPayload>>, 4, 3) /\ LibffiError \in Codecs
    BY Named DEF LibffiError
  <2> QED
    BY <2>1, PlainLaid, Ups, CaseOfTwo, <1>1
<1>4. Laid(ResultU32LibffiError, 16, 4, 4)
  <2>1. ResultU32LibffiError = CaseCodec(<<U32, LibffiError>>, 4, 4) /\ ResultU32LibffiError \in Codecs
    BY Named DEF ResultU32LibffiError
  <2> QED
    BY <2>1, PlainLaid, Ups, CaseOfTwo, <1>3
<1>5. Laid(Result_LibffiError, 16, 4, 4)
  <2>1. Result_LibffiError = CaseCodec(<<NoPayload, LibffiError>>, 4, 4) /\ Result_LibffiError \in Codecs
    BY Named DEF Result_LibffiError
  <2> QED
    BY <2>1, PlainLaid, Ups, CaseOfTwo, <1>3
<1> QED
  BY <1>1, <1>2, <1>3, <1>4, <1>5

\* The codecs of wasi:logging/logging.
LEMMA LogLaid ==
  /\ Laid(LogString, 8, 4, 2)
<1>1. Laid(LogString, 8, 4, 2)
  <2>1. LogString \in Codecs
    BY Named
  <2> QED
    BY <2>1, PlainLaid, ListLaid DEF LogString, StringCodec, Laid
<1> QED
  BY <1>1

\* So of every codec.
LEMMA CodecsSound == \A t \in Codecs : Sound(t)
<1>1. \A t, size, align, slots : Laid(t, size, align, slots) => Sound(t)
  BY DEF Laid
<1>2. Sound(NoPayload) /\ Sound(U8) /\ Sound(U32) /\ Sound(Own) /\ Sound(Borrow)
  BY <1>1, PlainLaid
<1>3. \A t \in {KvString, KvListString, KvOptionString, KvError, KvResult_Error,
                KvResultOptionString, KvResultListString} : Sound(t)
  BY <1>1, KvLaid
<1>4. \A t \in {CredString, CredOptionString, ApplyKind, ApplySpec, PlaceholderInfo,
                CredentialError, CredResultOptionString, CredResultPlaceholderInfo,
                CredResultString} : Sound(t)
  BY <1>1, CredLaid
<1>5. \A t \in {OauthString, OauthError, OauthResult_Error, SigningString, SigningListU8,
                SigningError, SigningResultBool, SigningResultListU8} : Sound(t)
  BY <1>1, OauthLaid, SigningLaid
<1>6. \A t \in {DyldString, PreloadedSymbol, ListPreloadedSymbol, PreloadedLibrary,
                ListPreloadedLibrary, DyldError, ResultLibraryDyldError, ResultU32String,
                Result_String} : Sound(t)
  BY <1>1, DyldLaid
<1>7. \A t \in {LibffiString, LibffiListU8, LibffiError, ResultU32LibffiError,
                Result_LibffiError, LogString} : Sound(t)
  BY <1>1, LibffiLaid, LogLaid
<1> QED
  BY <1>2, <1>3, <1>4, <1>5, <1>6, <1>7 DEF Codecs

\* What a parameter can be.
Lowered == {"byte", "word", "borrow", "string", "list"}

CodecsOf(F) == [i \in DOMAIN F.params |-> F.params[i].codec]

\* Parameters are lifted from their canonical slots; the result's block is as the result.
SoundFunc(F) ==
  /\ DOMAIN F.params = 1..Len(F.params) /\ Len(F.params) \in 0..3
  /\ \A i \in DOMAIN F.params :
        LET p == F.params[i] IN
        /\ p.codec \in Codecs /\ p.codec.k \in Lowered
        /\ p.from \in Nat /\ p.from = FirstSlots(CodecsOf(F))[i]
        /\ p.to = p.from + p.codec.guest.slots
  /\ \A i, j \in DOMAIN F.params : i < j => F.params[i].to <= F.params[j].from
  /\ F.result \in Codecs
  /\ F.result = NoPayload \/ (F.size = F.result.size /\ F.align = F.result.align)

\* Functions of one, two and three parameters.
LEMMA OneParam ==
  ASSUME NEW a \in Codecs, a.k \in Lowered, NEW to, to = a.guest.slots,
         NEW r \in Codecs, NEW align, NEW size, r = NoPayload \/ (size = r.size /\ align = r.align),
         NEW F, F = Func(<<Param(a, 0, to)>>, r, align, size)
  PROVE  SoundFunc(F)
<1>1. PICK ps : ps = <<Param(a, 0, to)>>
  OBVIOUS
<1>2. DOMAIN ps = 1..1 /\ Len(ps) = 1 /\ ps[1].codec = a /\ ps[1].from = 0 /\ ps[1].to = to
  BY <1>1 DEF Param
<1>3. F.params = ps /\ F.result = r /\ F.align = align /\ F.size = size
  BY <1>1 DEF Func
<1>4. CodecsOf(F) = <<a>>
  BY <1>2, <1>3 DEF CodecsOf
<1>5. FirstSlots(CodecsOf(F)) = <<0>>
  BY <1>4, FirstSlotsOfOne
<1>6. a.guest.slots \in Nat
  BY CodecsSound DEF Sound
<1> QED
  BY <1>2, <1>3, <1>5, <1>6, SMTT(30) DEF SoundFunc

\* The second parameter starts where the first ends.
LEMMA TwoParams ==
  ASSUME NEW a \in Codecs, NEW b \in Codecs, a.k \in Lowered, b.k \in Lowered,
         NEW o \in Nat, NEW to, o = a.guest.slots, to = o + b.guest.slots,
         NEW r \in Codecs, NEW align, NEW size, r = NoPayload \/ (size = r.size /\ align = r.align),
         NEW F, F = Func(<<Param(a, 0, o), Param(b, o, to)>>, r, align, size)
  PROVE  SoundFunc(F)
<1>1. PICK ps : ps = <<Param(a, 0, o), Param(b, o, to)>>
  OBVIOUS
<1>2. /\ DOMAIN ps = 1..2 /\ Len(ps) = 2
      /\ ps[1].codec = a /\ ps[1].from = 0 /\ ps[1].to = o
      /\ ps[2].codec = b /\ ps[2].from = o /\ ps[2].to = to
  BY <1>1 DEF Param
<1>3. F.params = ps /\ F.result = r /\ F.align = align /\ F.size = size
  BY <1>1 DEF Func
<1>4. CodecsOf(F) = <<a, b>>
  BY <1>2, <1>3, SMTT(30) DEF CodecsOf
<1>5. FirstSlots(CodecsOf(F)) = <<0, o>>
  <2>1. o = 0 + a.guest.slots
    OBVIOUS
  <2> QED
    BY <1>4, <2>1, FirstSlotsOfTwo
<1>6. a.guest.slots \in Nat /\ b.guest.slots \in Nat
  BY CodecsSound DEF Sound
<1>7. PICK slots : slots = <<0, o>> /\ slots[1] = 0 /\ slots[2] = o
  <2>1. <<0, o>>[1] = 0 /\ <<0, o>>[2] = o
    OBVIOUS
  <2> QED
    BY <2>1
<1>8. \A i \in 1..2 : /\ ps[i].codec \in Codecs /\ ps[i].codec.k \in Lowered
                      /\ ps[i].from \in Nat /\ ps[i].from = slots[i]
                      /\ ps[i].to = ps[i].from + ps[i].codec.guest.slots
  BY <1>2, <1>6, <1>7
<1>9. \A i, j \in 1..2 : i < j => ps[i].to <= ps[j].from
  BY <1>2, <1>6
<1>10. \A i \in DOMAIN F.params :
         LET q == F.params[i] IN
         /\ q.codec \in Codecs /\ q.codec.k \in Lowered
         /\ q.from \in Nat /\ q.from = FirstSlots(CodecsOf(F))[i]
         /\ q.to = q.from + q.codec.guest.slots
  BY <1>2, <1>3, <1>5, <1>7, <1>8, SMTT(60)
<1>12. DOMAIN F.params = 1..Len(F.params) /\ Len(F.params) \in 0..3
  BY <1>2, <1>3
<1>13. \A i, j \in DOMAIN F.params : i < j => F.params[i].to <= F.params[j].from
  BY <1>2, <1>3, <1>9
<1>14. F.result \in Codecs /\ (F.result = NoPayload \/ (F.size = F.result.size /\ F.align = F.result.align))
  BY <1>3
<1> QED
  BY ONLY <1>10, <1>12, <1>13, <1>14 DEF SoundFunc

\* So does the third.
LEMMA ThreeParams ==
  ASSUME NEW a \in Codecs, NEW b \in Codecs, NEW c \in Codecs,
         a.k \in Lowered, b.k \in Lowered, c.k \in Lowered,
         NEW o \in Nat, NEW p \in Nat, NEW to,
         o = a.guest.slots, p = o + b.guest.slots, to = p + c.guest.slots,
         NEW r \in Codecs, NEW align, NEW size, r = NoPayload \/ (size = r.size /\ align = r.align),
         NEW F, F = Func(<<Param(a, 0, o), Param(b, o, p), Param(c, p, to)>>, r, align, size)
  PROVE  SoundFunc(F)
<1>1. PICK ps : ps = <<Param(a, 0, o), Param(b, o, p), Param(c, p, to)>>
  OBVIOUS
<1>2. /\ DOMAIN ps = 1..3 /\ Len(ps) = 3
      /\ ps[1].codec = a /\ ps[1].from = 0 /\ ps[1].to = o
      /\ ps[2].codec = b /\ ps[2].from = o /\ ps[2].to = p
      /\ ps[3].codec = c /\ ps[3].from = p /\ ps[3].to = to
  BY <1>1 DEF Param
<1>3. F.params = ps /\ F.result = r /\ F.align = align /\ F.size = size
  BY <1>1 DEF Func
<1>4. CodecsOf(F) = <<a, b, c>>
  <2>1. CodecsOf(F) = [i \in 1..3 |-> ps[i].codec]
    BY <1>2, <1>3 DEF CodecsOf
  <2>2. \A i \in 1..3 : i = 1 \/ i = 2 \/ i = 3
    OBVIOUS
  <2>3. PICK cs : cs = <<a, b, c>>
    OBVIOUS
  <2>5. cs = [i \in 1..3 |-> cs[i]] /\ cs[1] = a /\ cs[2] = b /\ cs[3] = c
    BY <2>3
  <2>4. \A i \in 1..3 : ps[i].codec = cs[i]
    BY <1>2, <2>2, <2>5
  <2> QED
    BY <2>1, <2>3, <2>4, <2>5
<1>5. FirstSlots(CodecsOf(F)) = <<0, o, p>>
  <2>1. o = 0 + a.guest.slots
    OBVIOUS
  <2>2. FirstSlots(<<a, b, c>>) = <<0, o, p>>
    BY <2>1, FirstSlotsOfThree
  <2> QED
    BY <1>4, <2>2
<1>6. a.guest.slots \in Nat /\ b.guest.slots \in Nat /\ c.guest.slots \in Nat
  BY CodecsSound DEF Sound
<1>7. \A i \in 1..3 : i = 1 \/ i = 2 \/ i = 3
  OBVIOUS
<1>8. \A i, j \in 1..3 : i < j => ps[i].to <= ps[j].from
  BY <1>2, <1>6, <1>7
<1>9. PICK slots : slots = <<0, o, p>> /\ slots[1] = 0 /\ slots[2] = o /\ slots[3] = p
  <2>1. <<0, o, p>>[1] = 0 /\ <<0, o, p>>[2] = o /\ <<0, o, p>>[3] = p
    OBVIOUS
  <2> QED
    BY <2>1
<1>10. \A i \in 1..3 : /\ ps[i].codec \in Codecs /\ ps[i].codec.k \in Lowered
                       /\ ps[i].from \in Nat /\ ps[i].from = slots[i]
                       /\ ps[i].to = ps[i].from + ps[i].codec.guest.slots
  BY <1>2, <1>6, <1>7, <1>9
<1>11. \A i \in DOMAIN F.params :
         LET q == F.params[i] IN
         /\ q.codec \in Codecs /\ q.codec.k \in Lowered
         /\ q.from \in Nat /\ q.from = FirstSlots(CodecsOf(F))[i]
         /\ q.to = q.from + q.codec.guest.slots
  <2>1. FirstSlots(CodecsOf(F)) = slots /\ F.params = ps /\ DOMAIN ps = 1..3
    BY <1>2, <1>3, <1>5, <1>9
  <2> QED
    BY ONLY <2>1, <1>10
<1>12. DOMAIN F.params = 1..Len(F.params) /\ Len(F.params) \in 0..3
  BY <1>2, <1>3
<1>13. \A i, j \in DOMAIN F.params : i < j => F.params[i].to <= F.params[j].from
  BY <1>2, <1>3, <1>8, SMTT(30)
<1>14. F.result \in Codecs /\ (F.result = NoPayload \/ (F.size = F.result.size /\ F.align = F.result.align))
  BY <1>3
<1> QED
  BY ONLY <1>11, <1>12, <1>13, <1>14 DEF SoundFunc

\* So of every host function.
LEMMA FunctionsSound ==
  \A f \in DOMAIN HostFunctions : SoundFunc(HostFunctions[f])
<1>1. \A a, size, align, slots :
         Laid(a, size, align, slots) =>
           a \in Codecs /\ a.size = size /\ a.align = align /\ a.guest.slots = slots
  BY DEF Laid
<1>2. /\ \A a \in {KvString, CredString, OauthString, SigningString, DyldString, LibffiString, LogString} :
            a.k = "string" /\ Laid(a, 8, 4, 2)
      /\ \A a \in {SigningListU8, LibffiListU8, ListPreloadedLibrary} : a.k = "list" /\ Laid(a, 8, 4, 2)
      /\ U8.k = "byte" /\ U32.k = "word" /\ Borrow.k = "borrow"
  BY KvLaid, CredLaid, OauthLaid, SigningLaid, DyldLaid, LibffiLaid, LogLaid
     DEF KvString, CredString, OauthString, SigningString, DyldString, LibffiString, LogString,
         StringCodec, SigningListU8, LibffiListU8, ListPreloadedLibrary, ListCodec, ListOf,
         U8, U32, Borrow, Plain
<1>3. SoundFunc(KvDelete) /\ SoundFunc(KvGet) /\ SoundFunc(KvList)
  BY <1>1, <1>2, KvLaid, OneParam DEF KvDelete, KvGet, KvList, Lowered
<1>4. SoundFunc(KvSet)
  <2>1. /\ KvString \in Codecs /\ KvString.guest.slots = 2
        /\ KvResult_Error \in Codecs /\ KvResult_Error.align = 4 /\ KvResult_Error.size = 16
    BY <1>1, <1>2, KvLaid
  <2>2. 4 = 2 + KvString.guest.slots
    BY <2>1
  <2> QED
    BY <1>2, <2>1, <2>2, TwoParams DEF KvSet, Lowered
<1>5. SoundFunc(GetConfiguredMethod) /\ SoundFunc(GetPlaceholder) /\ SoundFunc(GetRaw)
  BY <1>1, <1>2, CredLaid, OneParam DEF GetConfiguredMethod, GetPlaceholder, GetRaw, Lowered
<1>6. SoundFunc(Refresh)
  BY <1>1, <1>2, OauthLaid, OneParam DEF Refresh, Lowered
<1>7. SoundFunc(Sign)
  <2>1. /\ SigningString \in Codecs /\ SigningString.guest.slots = 2
        /\ SigningListU8 \in Codecs /\ SigningListU8.guest.slots = 2
        /\ SigningResultListU8 \in Codecs /\ SigningResultListU8.align = 4
        /\ SigningResultListU8.size = 16
    BY <1>1, <1>2, SigningLaid
  <2>2. 4 = 2 + SigningListU8.guest.slots
    BY <2>1
  <2> QED
    BY <1>2, <2>1, <2>2, TwoParams DEF Sign, Lowered
<1>8. SoundFunc(Verify)
  <2>1. /\ SigningString \in Codecs /\ SigningString.guest.slots = 2
        /\ SigningListU8 \in Codecs /\ SigningListU8.guest.slots = 2
        /\ SigningResultBool \in Codecs /\ SigningResultBool.align = 4 /\ SigningResultBool.size = 16
    BY <1>1, <1>2, SigningLaid
  <2>2. 4 = 2 + SigningListU8.guest.slots /\ 6 = 4 + SigningListU8.guest.slots
    BY <2>1
  <2> QED
    BY <1>2, <2>1, <2>2, ThreeParams, SMTT(30) DEF Verify, Lowered
<1>9. SoundFunc(Initialize)
  BY <1>1, PlainLaid DEF Initialize, Func, SoundFunc
<1>10. SoundFunc(Load) /\ SoundFunc(SetLibraries)
  BY <1>1, <1>2, DyldLaid, OneParam DEF Load, SetLibraries, Lowered
<1>11. SoundFunc(LibrarySymbol)
  <2>1. /\ Borrow \in Codecs /\ Borrow.guest.slots = 1
        /\ DyldString \in Codecs /\ DyldString.guest.slots = 2
        /\ ResultU32String \in Codecs /\ ResultU32String.align = 4 /\ ResultU32String.size = 12
    BY <1>1, <1>2, PlainLaid, DyldLaid
  <2>2. 3 = 1 + DyldString.guest.slots
    BY <2>1
  <2> QED
    BY <1>2, <2>1, <2>2, TwoParams DEF LibrarySymbol, Lowered
<1>12. SoundFunc(PrepTrampoline)
  BY <1>1, <1>2, LibffiLaid, OneParam DEF PrepTrampoline, Lowered
<1>13. SoundFunc(PrepClosure)
  <2>1. /\ U32 \in Codecs /\ U32.guest.slots = 1
        /\ LibffiListU8 \in Codecs /\ LibffiListU8.guest.slots = 2
        /\ Result_LibffiError \in Codecs /\ Result_LibffiError.align = 4 /\ Result_LibffiError.size = 16
    BY <1>1, <1>2, PlainLaid, LibffiLaid
  <2>2. 2 = 1 + U32.guest.slots /\ 4 = 2 + LibffiListU8.guest.slots
    BY <2>1
  <2> QED
    BY <1>2, <2>1, <2>2, ThreeParams, SMTT(30) DEF PrepClosure, Lowered
<1>14. SoundFunc(Log)
  <2>1. /\ U8 \in Codecs /\ U8.guest.slots = 1 /\ NoPayload \in Codecs
        /\ LogString \in Codecs /\ LogString.guest.slots = 2
    BY <1>1, <1>2, PlainLaid, LogLaid
  <2>2. 3 = 1 + LogString.guest.slots /\ 5 = 3 + LogString.guest.slots
    BY <2>1
  <2> QED
    BY <1>2, <2>1, <2>2, ThreeParams, SMTT(30) DEF Log, Lowered
<1> QED
  BY <1>3, <1>4, <1>5, <1>6, <1>7, <1>8, <1>9, <1>10, <1>11, <1>12, <1>13, <1>14
     DEF HostFunctions

-----------------------------------------------------------------------------
(* Recursion over codecs: a list of records of lists of records is as deep *)
(* as they get.                                                            *)

Depth1 == {t \in Codecs : Components(t) = {}}
Depth2 == {t \in Codecs : Components(t) \subseteq Depth1}
Depth3 == {t \in Codecs : Components(t) \subseteq Depth2}
Depth4 == {t \in Codecs : Components(t) \subseteq Depth3}
Depth5 == {t \in Codecs : Components(t) \subseteq Depth4}
Depth6 == {t \in Codecs : Components(t) \subseteq Depth5}

\* The components of what the constructors build.
LEMMA ComponentsAre ==
  /\ \A kind, size, align, slots :
        kind \in {"none", "byte", "word", "own", "borrow"} =>
          Components(Plain(kind, size, align, slots)) = {}
  /\ \A kind, e, align, stride :
        kind \in {"string", "list"} => Components(ListOf(kind, e, align, stride)) = {e}
  /\ \A p, q, at, n : Components(CaseCodec(<<p, q>>, at, n)) = {p, q}
  /\ \A p, q, r, at, n : Components(CaseCodec(<<p, q, r>>, at, n)) = {p, q, r}
  /\ \A p, q, os, n : Components(RecordCodec(<<p, q>>, os, n)) = {p, q}
  /\ \A p, q, r, os, n : Components(RecordCodec(<<p, q, r>>, os, n)) = {p, q, r}
<1>1. \A p, q : ToSet(<<p, q>>) = {p, q}
  BY DEF ToSet
<1>2. \A p, q, r : ToSet(<<p, q, r>>) = {p, q, r}
  BY DEF ToSet
<1>3. \A ps, at, n : Components(CaseCodec(ps, at, n)) = ToSet(ps)
  BY DEF Components, CaseCodec
<1>4. \A fs, os, n : Components(RecordCodec(fs, os, n)) = ToSet(fs)
  BY DEF Components, RecordCodec
<1>5. \A kind, size, align, slots :
        kind \in {"none", "byte", "word", "own", "borrow"} =>
          Components(Plain(kind, size, align, slots)) = {}
  BY DEF Components, Plain
<1>6. \A kind, e, align, stride :
        kind \in {"string", "list"} => Components(ListOf(kind, e, align, stride)) = {e}
  BY DEF Components, ListOf
<1> QED
  BY <1>1, <1>2, <1>3, <1>4, <1>5, <1>6

\* No codec is deeper than six.
LEMMA Deep == Codecs = Depth6
<1>1. Depth1 \subseteq Depth2 /\ Depth2 \subseteq Depth3 /\ Depth3 \subseteq Depth4
      /\ Depth4 \subseteq Depth5 /\ Depth5 \subseteq Depth6
  BY DEF Depth1, Depth2, Depth3, Depth4, Depth5, Depth6
<1>2. {NoPayload, U8, U32, Own, Borrow, ApplyKind} \subseteq Depth1
  <2>1. /\ Components(NoPayload) = {}
        /\ Components(U8) = {}
        /\ Components(U32) = {}
        /\ Components(Own) = {}
        /\ Components(Borrow) = {}
    BY ComponentsAre DEF NoPayload, U8, U32, Own, Borrow
  <2>2. Components(ApplyKind) = {}
    BY ComponentsAre DEF ApplyKind, U8
  <2> QED
    BY <2>1, <2>2, <1>1, Named, PlainLaid DEF Depth1, Laid
<1>3. {KvString, CredString, OauthString, SigningString, SigningListU8, DyldString,
       LibffiString, LibffiListU8, LogString} \subseteq Depth2
  <2>1. /\ Components(KvString) = {U8}
        /\ Components(CredString) = {U8}
        /\ Components(OauthString) = {U8}
        /\ Components(SigningString) = {U8}
        /\ Components(SigningListU8) = {U8}
    BY ComponentsAre DEF KvString, CredString, OauthString, SigningString, SigningListU8, ListCodec,
       StringCodec
  <2>2. /\ Components(DyldString) = {U8}
        /\ Components(LibffiString) = {U8}
        /\ Components(LibffiListU8) = {U8}
        /\ Components(LogString) = {U8}
    BY ComponentsAre DEF DyldString, LibffiString, LibffiListU8, LogString, ListCodec, StringCodec
  <2> QED
    BY <2>1, <2>2, <1>1, <1>2, Named, PlainLaid DEF Depth2, Laid
<1>4. {KvListString, KvOptionString, KvError, CredOptionString, CredentialError,
       OauthError, SigningError, PreloadedSymbol, DyldError, ResultU32String,
       Result_String, LibffiError} \subseteq Depth3
  <2>1. /\ Components(KvListString) = {KvString}
        /\ Components(KvOptionString) = {NoPayload, KvString}
        /\ Components(KvError) = {KvString, NoPayload}
        /\ Components(CredOptionString) = {NoPayload, CredString}
        /\ Components(CredentialError) = {NoPayload, CredString}
    BY ComponentsAre DEF KvListString, KvOptionString, KvError, CredOptionString, CredentialError, ListCodec
  <2>2. /\ Components(OauthError) = {NoPayload, OauthString}
        /\ Components(SigningError) = {NoPayload, SigningString}
        /\ Components(PreloadedSymbol) = {DyldString, U32}
        /\ Components(DyldError) = {NoPayload, DyldString}
        /\ Components(ResultU32String) = {U32, DyldString}
    BY ComponentsAre DEF OauthError, SigningError, PreloadedSymbol, DyldError, ResultU32String
  <2>3. /\ Components(Result_String) = {NoPayload, DyldString}
        /\ Components(LibffiError) = {LibffiString, NoPayload}
    BY ComponentsAre DEF Result_String, LibffiError
  <2> QED
    BY <2>1, <2>2, <2>3, <1>1, <1>2, <1>3, Named, PlainLaid DEF Depth3, Laid
<1>5. {KvResult_Error, KvResultOptionString, KvResultListString, ApplySpec,
       CredResultOptionString, CredResultString, OauthResult_Error, SigningResultBool,
       SigningResultListU8, ListPreloadedSymbol, ResultLibraryDyldError,
       ResultU32LibffiError, Result_LibffiError} \subseteq Depth4
  <2>1. /\ Components(KvResult_Error) = {NoPayload, KvError}
        /\ Components(KvResultOptionString) = {KvOptionString, KvError}
        /\ Components(KvResultListString) = {KvListString, KvError}
        /\ Components(ApplySpec) = {ApplyKind, CredOptionString}
        /\ Components(CredResultOptionString) = {CredOptionString, CredentialError}
    BY ComponentsAre DEF KvResult_Error, KvResultOptionString, KvResultListString, ApplySpec,
       CredResultOptionString
  <2>2. /\ Components(CredResultString) = {CredString, CredentialError}
        /\ Components(OauthResult_Error) = {NoPayload, OauthError}
        /\ Components(SigningResultBool) = {U8, SigningError}
        /\ Components(SigningResultListU8) = {SigningListU8, SigningError}
        /\ Components(ListPreloadedSymbol) = {PreloadedSymbol}
    BY ComponentsAre DEF CredResultString, OauthResult_Error, SigningResultBool, SigningResultListU8,
       ListPreloadedSymbol, ListCodec
  <2>3. /\ Components(ResultLibraryDyldError) = {Own, DyldError}
        /\ Components(ResultU32LibffiError) = {U32, LibffiError}
        /\ Components(Result_LibffiError) = {NoPayload, LibffiError}
    BY ComponentsAre DEF ResultLibraryDyldError, ResultU32LibffiError, Result_LibffiError
  <2> QED
    BY <2>1, <2>2, <2>3, <1>1, <1>2, <1>3, <1>4, Named, PlainLaid DEF Depth4, Laid
<1>6. {PlaceholderInfo, PreloadedLibrary} \subseteq Depth5
  <2>1. /\ Components(PlaceholderInfo) = {CredString, ApplySpec}
        /\ Components(PreloadedLibrary) = {DyldString, ListPreloadedSymbol}
    BY ComponentsAre DEF PlaceholderInfo, PreloadedLibrary
  <2> QED
    BY <2>1, <1>1, <1>2, <1>3, <1>4, <1>5, Named, PlainLaid DEF Depth5, Laid
<1>7. {CredResultPlaceholderInfo, ListPreloadedLibrary} \subseteq Depth6
  <2>1. /\ Components(CredResultPlaceholderInfo) = {PlaceholderInfo, CredentialError}
        /\ Components(ListPreloadedLibrary) = {PreloadedLibrary}
    BY ComponentsAre DEF CredResultPlaceholderInfo, ListPreloadedLibrary, ListCodec
  <2> QED
    BY <2>1, <1>1, <1>2, <1>3, <1>4, <1>5, <1>6, Named, PlainLaid DEF Depth6, Laid
<1> QED
  BY <1>1, <1>2, <1>3, <1>4, <1>5, <1>6, <1>7 DEF Codecs, Depth6

\* What holds of a codec when it holds of its components holds of them all.
LEMMA CodecInduction ==
  ASSUME NEW S, \A t \in Codecs : Components(t) \subseteq S => t \in S
  PROVE  Codecs \subseteq S
<1>1. Depth1 \subseteq S
  BY DEF Depth1
<1>2. Depth2 \subseteq S
  BY <1>1 DEF Depth2
<1>3. Depth3 \subseteq S
  BY <1>2 DEF Depth3
<1>4. Depth4 \subseteq S
  BY <1>3 DEF Depth4
<1>5. Depth5 \subseteq S
  BY <1>4 DEF Depth5
<1> QED
  BY <1>5, Deep DEF Depth6

\* What a function of codecs is made from: its values at the components.
LEMMA Parts ==
  ASSUME NEW t \in Codecs
  PROVE  /\ t.k \in Kinds
         /\ t.k \in {"string", "list"} => Components(t) = {t.elem}
         /\ t.k = "case" => \A d \in DOMAIN t.payloads : t.payloads[d] \in Components(t)
         /\ t.k = "record" => \A i \in DOMAIN t.fields : t.fields[i] \in Components(t)
         /\ Components(t) \subseteq Codecs
<1>1. t.k \in Kinds
  BY CodecsSound DEF Sound
<1>2. CASE t.k \in {"string", "list"}
  <2>1. t.elem \in Codecs
    BY <1>2, CodecsSound DEF Sound, SoundList
  <2> QED
    BY <1>2, <2>1, <1>1 DEF Components
<1>3. CASE t.k = "case"
  <2>1. t.payloads \in Seq(Codecs) /\ Components(t) = ToSet(t.payloads)
    BY <1>3, CodecsSound DEF Sound, SoundCase, Components
  <2> QED
    BY <1>3, <2>1 DEF ToSet, Kinds
<1>4. CASE t.k = "record"
  <2>1. t.fields \in Seq(Codecs) /\ Components(t) = ToSet(t.fields)
    BY <1>4, CodecsSound DEF Sound, SoundRecord, Components
  <2> QED
    BY <1>4, <2>1 DEF ToSet, Kinds
<1>5. CASE t.k \notin {"string", "list", "case", "record"}
  BY <1>1, <1>5 DEF Components
<1> QED
  BY <1>2, <1>3, <1>4, <1>5

\* The values of a codec depend on those of its components only.
LEMMA ValuesByParts ==
  ASSUME NEW L, NEW O, NEW f, NEW g, NEW t \in Codecs, \A c \in Components(t) : f[c] = g[c]
  PROVE  ValuesBy(L, O, f, t) = ValuesBy(L, O, g, t)
<1>1. CASE t.k = "list"
  BY <1>1, Parts DEF ValuesBy
<1>2. CASE t.k = "case"
  <2>1. \A d \in DOMAIN t.payloads : f[t.payloads[d]] = g[t.payloads[d]]
    BY <1>2, Parts
  <2>2. {{<<d - 1, x>> : x \in f[t.payloads[d]]} : d \in DOMAIN t.payloads}
          = {{<<d - 1, x>> : x \in g[t.payloads[d]]} : d \in DOMAIN t.payloads}
    BY <2>1
  <2> QED
    BY <1>2, <2>2 DEF ValuesBy
<1>3. CASE t.k = "record"
  <2>1. [i \in DOMAIN t.fields |-> f[t.fields[i]]] = [i \in DOMAIN t.fields |-> g[t.fields[i]]]
    BY <1>3, Parts
  <2> QED
    BY <1>3, <2>1 DEF ValuesBy
<1>4. CASE t.k \notin {"list", "case", "record"}
  BY <1>4 DEF ValuesBy
<1> QED
  BY <1>1, <1>2, <1>3, <1>4

\* So does what a reader finds.
LEMMA FoundParts ==
  ASSUME NEW side, NEW w, NEW f, NEW g, NEW t \in Codecs, \A c \in Components(t) : f[c] = g[c],
         NEW at
  PROVE  Found(side, f, t, w, at) = Found(side, g, t, w, at)
<1>1. CASE t.k \in {"string", "list"}
  <2>1. f[t.elem] = g[t.elem]
    BY <1>1, Parts
  <2>2. \A a, n : Elements(side, f, t, a, n) = Elements(side, g, t, a, n)
    BY <2>1 DEF Elements
  <2> QED
    BY <1>1, <2>2 DEF Found
<1>2. CASE t.k = "case"
  <2>1. \A d \in DOMAIN t.payloads : f[t.payloads[d]] = g[t.payloads[d]]
    BY <1>2, Parts
  <2>2. \A d : Chosen(side, f, t, d, at) = Chosen(side, g, t, d, at)
    BY <2>1 DEF Chosen
  <2> QED
    BY <1>2, <2>2 DEF Found
<1>3. CASE t.k = "record"
  <2>1. [i \in DOMAIN t.fields |-> f[t.fields[i]][at + t[side].offsets[i]]]
          = [i \in DOMAIN t.fields |-> g[t.fields[i]][at + t[side].offsets[i]]]
    BY <1>3, Parts
  <2> QED
    BY <1>3, <2>1 DEF Found
<1>4. CASE t.k \notin {"string", "list", "case", "record"}
  BY <1>4 DEF Found
<1> QED
  BY <1>1, <1>2, <1>3, <1>4

\* The values of a codec, by recursion.
LEMMA ValuesAre ==
  ASSUME NEW L, NEW O
  PROVE  ValuesOf(L, O) = [t \in Codecs |-> ValuesBy(L, O, ValuesOf(L, O), t)]
<1> DEFINE Step(f) == [t \in Codecs |-> ValuesBy(L, O, f, t)]
<1>1. \A f, g, t : t \in Codecs /\ (\A c \in Components(t) : f[c] = g[c]) => Step(f)[t] = Step(g)[t]
  BY ValuesByParts
<1>2. \A f, t : t \in Codecs => DOMAIN Step(f) = Codecs /\ Step(f) = [u \in Codecs |-> Step(f)[u]]
  OBVIOUS
<1> HIDE DEF Step
<1>0. PICK f0 : f0 = {}
  OBVIOUS
<1>3. PICK f1 : f1 = Step(f0) /\ \A t \in Depth1 : f1[t] = Step(f1)[t]
  BY <1>1 DEF Depth1
<1>4. PICK f2 : f2 = Step(f1) /\ \A t \in Depth2 : f2[t] = Step(f2)[t]
  BY <1>3, <1>1 DEF Depth2
<1>5. PICK f3 : f3 = Step(f2) /\ \A t \in Depth3 : f3[t] = Step(f3)[t]
  BY <1>4, <1>1 DEF Depth3
<1>6. PICK f4 : f4 = Step(f3) /\ \A t \in Depth4 : f4[t] = Step(f4)[t]
  BY <1>5, <1>1 DEF Depth4
<1>7. PICK f5 : f5 = Step(f4) /\ \A t \in Depth5 : f5[t] = Step(f5)[t]
  BY <1>6, <1>1 DEF Depth5
<1>8. PICK f6 : f6 = Step(f5) /\ \A t \in Depth6 : f6[t] = Step(f6)[t]
  BY <1>7, <1>1 DEF Depth6
<1>9. f6 = Step(f6)
  <2>1. \A t \in Codecs : f6[t] = Step(f6)[t]
    BY <1>8, Deep
  <2>2. f6 = [u \in Codecs |-> f6[u]] /\ Step(f6) = [u \in Codecs |-> Step(f6)[u]]
    BY <1>2, <1>8, PlainLaid DEF Laid
  <2> QED
    BY <2>1, <2>2
<1>10. PICK g : g = Step(g)
  BY <1>9
<1> QED
  BY <1>10, ValuesFix DEF Step

\* What a reader finds, by recursion.
LEMMA FindsAre ==
  ASSUME NEW S, NEW w
  PROVE  Finds(S, w) = [t \in Codecs |-> [at \in Nat |-> Found(S, Finds(S, w), t, w, at)]]
<1> DEFINE Step(f) == [t \in Codecs |-> [at \in Nat |-> Found(S, f, t, w, at)]]
<1>1. \A f, g, t : t \in Codecs /\ (\A c \in Components(t) : f[c] = g[c]) => Step(f)[t] = Step(g)[t]
  BY FoundParts
<1>2. \A f, t : t \in Codecs => DOMAIN Step(f) = Codecs /\ Step(f) = [u \in Codecs |-> Step(f)[u]]
  OBVIOUS
<1> HIDE DEF Step
<1>0. PICK f0 : f0 = {}
  OBVIOUS
<1>3. PICK f1 : f1 = Step(f0) /\ \A t \in Depth1 : f1[t] = Step(f1)[t]
  BY <1>1 DEF Depth1
<1>4. PICK f2 : f2 = Step(f1) /\ \A t \in Depth2 : f2[t] = Step(f2)[t]
  BY <1>3, <1>1 DEF Depth2
<1>5. PICK f3 : f3 = Step(f2) /\ \A t \in Depth3 : f3[t] = Step(f3)[t]
  BY <1>4, <1>1 DEF Depth3
<1>6. PICK f4 : f4 = Step(f3) /\ \A t \in Depth4 : f4[t] = Step(f4)[t]
  BY <1>5, <1>1 DEF Depth4
<1>7. PICK f5 : f5 = Step(f4) /\ \A t \in Depth5 : f5[t] = Step(f5)[t]
  BY <1>6, <1>1 DEF Depth5
<1>8. PICK f6 : f6 = Step(f5) /\ \A t \in Depth6 : f6[t] = Step(f6)[t]
  BY <1>7, <1>1 DEF Depth6
<1>9. f6 = Step(f6)
  <2>1. \A t \in Codecs : f6[t] = Step(f6)[t]
    BY <1>8, Deep
  <2>2. f6 = [u \in Codecs |-> f6[u]] /\ Step(f6) = [u \in Codecs |-> Step(f6)[u]]
    BY <1>2, <1>8, PlainLaid DEF Laid
  <2> QED
    BY <2>1, <2>2
<1>10. PICK g : g = Step(g)
  BY <1>9
<1> QED
  BY <1>10, FindsFix DEF Step

-----------------------------------------------------------------------------
(* Values of codecs.                                                       *)

\* What an element of a product is.
LEMMA ProductIs ==
  ASSUME NEW U, NEW S \in Seq(U), Len(S) \in 0..3, NEW v \in Product(S)
  PROVE  DOMAIN v = DOMAIN S /\ v = [i \in DOMAIN S |-> v[i]] /\ \A i \in DOMAIN S : v[i] \in S[i]
<1>0. DOMAIN S = 1..Len(S)
  OBVIOUS
<1>1. CASE Len(S) = 0
  BY <1>0, <1>1 DEF Product
<1>2. CASE Len(S) = 1
  <2>1. PICK x \in S[1] : v = <<x>>
    BY <1>2 DEF Product
  <2>2. DOMAIN v = 1..1 /\ v[1] = x /\ v = [i \in 1..1 |-> v[i]] /\ DOMAIN S = 1..1
    BY <2>1, <1>0, <1>2
  <2> QED
    BY <2>1, <2>2
<1>3. CASE Len(S) = 2
  <2>1. PICK x \in S[1], y \in S[2] : v = <<x, y>>
    BY <1>3 DEF Product
  <2>2. DOMAIN v = 1..2 /\ v[1] = x /\ v[2] = y /\ v = [i \in 1..2 |-> v[i]] /\ DOMAIN S = 1..2
    BY <2>1, <1>0, <1>3
  <2> QED
    BY <2>1, <2>2
<1>4. CASE Len(S) = 3
  <2>1. PICK x \in S[1], y \in S[2], z \in S[3] : v = <<x, y, z>>
    BY <1>4 DEF Product
  <2>2. /\ DOMAIN v = 1..3 /\ v[1] = x /\ v[2] = y /\ v[3] = z
        /\ v = [i \in 1..3 |-> v[i]] /\ DOMAIN S = 1..3
    BY <2>1, <1>0, <1>4
  <2> QED
    BY <2>1, <2>2
<1> QED
  BY <1>1, <1>2, <1>3, <1>4

\* A product of larger sets is larger.
LEMMA ProductGrows ==
  ASSUME NEW U, NEW S \in Seq(U), NEW T \in Seq(U), Len(S) = Len(T), Len(S) \in 0..3,
         \A i \in DOMAIN S : S[i] \subseteq T[i]
  PROVE  Product(S) \subseteq Product(T)
<1>0. DOMAIN S = 1..Len(S)
  OBVIOUS
<1>1. CASE Len(S) = 0
  BY <1>0, <1>1 DEF Product
<1>2. CASE Len(S) = 1
  <2>1. S[1] \subseteq T[1]
    BY <1>0, <1>2
  <2> QED
    BY <2>1, <1>2 DEF Product
<1>3. CASE Len(S) = 2
  <2>1. S[1] \subseteq T[1] /\ S[2] \subseteq T[2]
    BY <1>0, <1>3
  <2> QED
    BY <2>1, <1>3 DEF Product
<1>4. CASE Len(S) = 3
  <2>1. S[1] \subseteq T[1] /\ S[2] \subseteq T[2] /\ S[3] \subseteq T[3]
    BY <1>0, <1>4
  <2> QED
    BY <2>1, <1>4 DEF Product
<1> QED
  BY <1>1, <1>2, <1>3, <1>4

\* The sets that a record's values are taken from.
LEMMA FieldSets ==
  ASSUME NEW t \in Codecs, t.k = "record", NEW f
  PROVE  LET S == [i \in DOMAIN t.fields |-> f[t.fields[i]]] IN
         /\ S \in Seq({f[c] : c \in Codecs}) /\ Len(S) = Len(t.fields) /\ Len(S) \in 0..3
         /\ DOMAIN S = DOMAIN t.fields
<1> DEFINE S == [i \in DOMAIN t.fields |-> f[t.fields[i]]]
<1>1. t.fields \in Seq(Codecs) /\ Len(t.fields) \in 0..3
  BY CodecsSound DEF Sound, SoundRecord
<1>2. DOMAIN t.fields = 1..Len(t.fields) /\ \A i \in DOMAIN t.fields : t.fields[i] \in Codecs
  BY <1>1
<1>3. S \in Seq({f[c] : c \in Codecs}) /\ Len(S) = Len(t.fields)
  BY <1>1, <1>2
<1> QED
  BY <1>1, <1>3

\* Every value there may be of each codec, whatever libraries and handles there are.
Shapes == ValuesOf(Nat, Nat)

\* The values of a call are among them.
LEMMA ValuesFit ==
  ASSUME NEW L \in SUBSET Nat, NEW O \in SUBSET Nat, NEW t \in Codecs
  PROVE  ValuesOf(L, O)[t] \subseteq Shapes[t]
<1>1. PICK f : f = ValuesOf(L, O) /\ \A u \in Codecs : f[u] = ValuesBy(L, O, f, u)
  BY ValuesAre
<1>2. PICK g : g = Shapes /\ \A u \in Codecs : g[u] = ValuesBy(Nat, Nat, g, u)
  BY ValuesAre DEF Shapes
<1> DEFINE S == {u \in Codecs : f[u] \subseteq g[u]}
<1>3. ASSUME NEW u \in Codecs, Components(u) \subseteq S
      PROVE  f[u] \subseteq g[u]
  <2>0. \A c \in Components(u) : f[c] \subseteq g[c]
    BY <1>3
  <2> SUFFICES ValuesBy(L, O, f, u) \subseteq ValuesBy(Nat, Nat, g, u)
    BY <1>1, <1>2
  <2>1. CASE u.k = "list"
    <3>1. f[u.elem] \subseteq g[u.elem]
      BY <2>0, <2>1, Parts
    <3>2. \A n \in 0..MaxLen : [1..n -> f[u.elem]] \subseteq [1..n -> g[u.elem]]
      BY <3>1
    <3> QED
      BY <2>1, <3>2 DEF ValuesBy
  <2>2. CASE u.k = "case"
    <3>1. \A d \in DOMAIN u.payloads : f[u.payloads[d]] \subseteq g[u.payloads[d]]
      BY <2>0, <2>2, Parts
    <3>2. UNION {{<<d - 1, x>> : x \in f[u.payloads[d]]} : d \in DOMAIN u.payloads}
            \subseteq UNION {{<<d - 1, x>> : x \in g[u.payloads[d]]} : d \in DOMAIN u.payloads}
      BY <3>1
    <3> QED
      BY <2>2, <3>2 DEF ValuesBy
  <2>3. CASE u.k = "record"
    <3> DEFINE F == [i \in DOMAIN u.fields |-> f[u.fields[i]]]
               G == [i \in DOMAIN u.fields |-> g[u.fields[i]]]
               U == {f[c] : c \in Codecs} \union {g[c] : c \in Codecs}
    <3>1. \A i \in DOMAIN u.fields : f[u.fields[i]] \subseteq g[u.fields[i]]
      BY <2>0, <2>3, Parts
    <3>2. /\ F \in Seq({f[c] : c \in Codecs}) /\ Len(F) = Len(u.fields) /\ Len(F) \in 0..3
          /\ G \in Seq({g[c] : c \in Codecs}) /\ Len(G) = Len(u.fields)
          /\ DOMAIN F = DOMAIN u.fields
      BY <2>3, FieldSets
    <3>3. F \in Seq(U) /\ G \in Seq(U)
      BY <3>2
    <3>4. \A i \in DOMAIN F : F[i] \subseteq G[i]
      BY <3>1
    <3>5. Product(F) \subseteq Product(G)
      <4> HIDE DEF F, G, U
      <4> QED
        BY <3>2, <3>3, <3>4, ProductGrows
    <3> QED
      BY <2>3, <3>5 DEF ValuesBy
  <2>4. CASE u.k \notin {"list", "case", "record"}
    BY <2>4 DEF ValuesBy
  <2> QED
    BY <2>1, <2>2, <2>3, <2>4
<1>4. Codecs \subseteq S
  <2> HIDE DEF S
  <2>1. \A u \in Codecs : Components(u) \subseteq S => u \in S
    BY <1>3 DEF S
  <2> QED
    BY <2>1, CodecInduction
<1> QED
  BY <1>1, <1>2, <1>4

\* What a value of each kind is made of.
LEMMA ShapesAre ==
  ASSUME NEW t \in Codecs, NEW v \in Shapes[t]
  PROVE  /\ t.k = "none" => v = Nothing
         /\ t.k = "own" => v \in Nat
         /\ t.k \in {"string", "list"} =>
              /\ Len(v) \in Nat /\ v = [e \in 1..Len(v) |-> v[e]]
         /\ t.k = "list" => \A e \in 1..Len(v) : v[e] \in Shapes[t.elem]
         /\ t.k = "case" =>
              \E d \in DOMAIN t.payloads : \E x \in Shapes[t.payloads[d]] : v = <<d - 1, x>>
         /\ t.k = "record" =>
              /\ v = [i \in DOMAIN t.fields |-> v[i]]
              /\ \A i \in DOMAIN t.fields : v[i] \in Shapes[t.fields[i]]
<1>1. PICK g : g = Shapes /\ \A u \in Codecs : g[u] = ValuesBy(Nat, Nat, g, u)
  BY ValuesAre DEF Shapes
<1>2. v \in ValuesBy(Nat, Nat, g, t)
  BY <1>1
<1>3. CASE t.k = "string"
  <2>1. v \in Seq(Nat)
    BY <1>2, <1>3, ValuesAssumption DEF ValuesBy
  <2> QED
    BY <1>3, <2>1
<1>4. CASE t.k = "list"
  <2>1. PICK n \in 0..MaxLen : v \in [1..n -> g[t.elem]]
    BY <1>2, <1>4 DEF ValuesBy
  <2>2. n \in Nat /\ v \in Seq(g[t.elem]) /\ Len(v) = n
    BY <2>1, SizesAssumption
  <2> QED
    BY <1>1, <1>4, <2>1, <2>2
<1>5. CASE t.k = "case"
  <2>1. v \in UNION {{<<d - 1, x>> : x \in g[t.payloads[d]]} : d \in DOMAIN t.payloads}
    BY <1>2, <1>5 DEF ValuesBy
  <2>2. PICK d \in DOMAIN t.payloads : v \in {<<d - 1, x>> : x \in g[t.payloads[d]]}
    BY <2>1
  <2> QED
    BY <1>1, <1>5, <2>2
<1>6. CASE t.k = "record"
  <2> DEFINE G == [i \in DOMAIN t.fields |-> g[t.fields[i]]]
  <2>1. v \in Product(G)
    BY <1>2, <1>6 DEF ValuesBy
  <2>2. G \in Seq({g[c] : c \in Codecs}) /\ Len(G) \in 0..3 /\ DOMAIN G = DOMAIN t.fields
    BY <1>6, FieldSets
  <2>3. \A i \in DOMAIN t.fields : G[i] = g[t.fields[i]]
    OBVIOUS
  <2>4. v = [i \in DOMAIN G |-> v[i]] /\ \A i \in DOMAIN G : v[i] \in G[i]
    <3> HIDE DEF G
    <3> QED
      BY <2>1, <2>2, ProductIs
  <2> HIDE DEF G
  <2> QED
    BY <1>1, <1>6, <2>2, <2>3, <2>4
<1>8. CASE t.k = "own"
  BY <1>2, <1>8 DEF ValuesBy
<1>7. CASE t.k = "none"
  BY <1>2, <1>7 DEF ValuesBy
<1> QED
  BY <1>3, <1>4, <1>5, <1>6, <1>7, <1>8

-----------------------------------------------------------------------------
(* What is still to be written, and what a reader finds of it later.       *)

Sides == {"host", "guest"}

HeaderKind == [k |-> "header"]

\* How many bytes or slots an item takes, and which.
Room(i) ==
  IF i.t = HeaderKind THEN (IF i.in = "memory" THEN 8 ELSE 2)
  ELSE IF i.in = "memory" THEN i.t.size ELSE i.t.guest.slots
Cells(i) == {<<i.in, a>> : a \in i.at..i.at + Room(i) - 1}

Items ==
  {i \in [t : Codecs \union {HeaderKind}, in : {"memory", "stack"}, at : Nat,
          v : (UNION {Shapes[t] : t \in Codecs}) \union (Nat \X Nat)] :
     /\ i.t = HeaderKind => i.v \in Nat \X Nat
     /\ i.t # HeaderKind => i.v \in Shapes[i.t]
     /\ i.in = "stack" => i.t = HeaderKind \/ i.t.k \in Lowered}

Pending(q) == UNION {Cells(q[j]) : j \in DOMAIN q}
Apart(q) == \A i, j \in DOMAIN q : i # j => Cells(q[i]) \intersect Cells(q[j]) = {}

\* Side S finds what an item is about, in memory w and on stack s.
Carries(S, w, s, i) ==
  IF i.t = HeaderKind
    THEN IF i.in = "memory"
           THEN Word(w.mem, i.at) = i.v[1] /\ Word(w.mem, i.at + 4) = i.v[2]
           ELSE s[i.at] = i.v[1] /\ s[i.at + 1] = i.v[2]
  ELSE IF i.in = "memory" THEN Finds(S, w)[i.t][i.at] = i.v
  ELSE IF i.t.k \in {"byte", "word"} THEN s[i.at] = i.v
  ELSE IF i.t.k = "borrow" THEN s[i.at] = w.handles[i.v]
  ELSE Elements(S, Finds(S, w), i.t, s[i.at], s[i.at + 1]) = i.v

\* What was written stays, except where something is still to be written.
Agree(new, old, in, q) ==
  \A a \in DOMAIN old : <<in, a>> \notin Pending(q) => a \in DOMAIN new /\ new[a] = old[a]
Keeps(new, old) == \A a \in DOMAIN old : a \in DOMAIN new /\ new[a] = old[a]

\* Memory w and stack s are what is written so far with the rest written.
Completes(S, w, s, m, st, h, e, q) ==
  /\ Agree(w.mem, m, "memory", q) /\ Agree(s, st, "stack", q)
  /\ Keeps(w.handles, h) /\ Keeps(w.extern, e)
  /\ \A j \in DOMAIN q : Carries(S, w, s, q[j])

\* The layout is the same on both sides.
LEMMA SameLayout ==
  ASSUME NEW t \in Codecs, NEW S \in Sides
  PROVE  t[S] = t.guest
<1>1. t.host = t.guest
  BY CodecsSound DEF Sound
<1> QED
  BY <1>1 DEF Sides

\* What a reader finds at one address.
LEMMA FindsAt ==
  ASSUME NEW S, NEW w, NEW t \in Codecs, NEW at \in Nat
  PROVE  Finds(S, w)[t][at] = Found(S, Finds(S, w), t, w, at)
<1>1. PICK f : f = Finds(S, w)
  OBVIOUS
<1>2. f = [u \in Codecs |-> [a \in Nat |-> Found(S, f, u, w, a)]]
  BY <1>1, FindsAre
<1>3. f[t][at] = Found(S, f, t, w, at)
  BY <1>2
<1> QED
  BY <1>1, <1>3

\* An item is a record, and a header is not a codec.
LEMMA ItemIs ==
  ASSUME NEW i \in Items
  PROVE  /\ i = Item(i.t, i.in, i.at, i.v) /\ i.at \in Nat /\ i.in \in {"memory", "stack"}
         /\ i.t = HeaderKind \/ i.t \in Codecs
         /\ i.t = HeaderKind => i.t \notin Codecs /\ i.v \in Nat \X Nat
         /\ i.t.k = "header" <=> i.t = HeaderKind
         /\ i.t \in Codecs => i.v \in Shapes[i.t]
         /\ i.in = "stack" => i.t = HeaderKind \/ i.t.k \in Lowered
         /\ Room(i) \in Nat
<1>1. i.t = HeaderKind \/ i.t \in Codecs
  BY DEF Items
<1>2. HeaderKind.k = "header"
  BY DEF HeaderKind
<1>3. \A t \in Codecs : t.k # "header" /\ t.size \in Nat /\ t.guest.slots \in Nat
  BY CodecsSound DEF Sound, Kinds
<1>4. i.t = HeaderKind => i.t \notin Codecs
  BY <1>2, <1>3
<1>5. i.t.k = "header" <=> i.t = HeaderKind
  BY <1>1, <1>2, <1>3
<1>6. Room(i) \in Nat
  BY <1>1, <1>3, <1>4 DEF Room
<1>7. i = Item(i.t, i.in, i.at, i.v) /\ i.at \in Nat /\ i.in \in {"memory", "stack"}
  BY DEF Items, Item
<1> QED
  BY <1>1, <1>4, <1>5, <1>6, <1>7 DEF Items

\* And such records are items.
LEMMA ItemFits ==
  ASSUME NEW in \in {"memory", "stack"}, NEW at \in Nat, NEW t, NEW v,
         \/ t = HeaderKind /\ v \in Nat \X Nat
         \/ t \in Codecs /\ v \in Shapes[t] /\ (in = "memory" \/ t.k \in Lowered)
  PROVE  Item(t, in, at, v) \in Items
<1>1. HeaderKind.k = "header" /\ \A c \in Codecs : c.k # "header"
  BY CodecsSound DEF Sound, Kinds, HeaderKind
<1>2. HeaderKind \notin Codecs
  BY <1>1
<1>3. PICK i : i = Item(t, in, at, v)
  OBVIOUS
<1>4. i.t = t /\ i.in = in /\ i.at = at /\ i.v = v
  BY <1>3 DEF Item
<1>5. v \in (UNION {Shapes[c] : c \in Codecs}) \union (Nat \X Nat)
  <2>1. CASE t \in Codecs /\ v \in Shapes[t]
    <3>1. Shapes[t] \in {Shapes[c] : c \in Codecs}
      BY <2>1
    <3> QED
      BY <2>1, <3>1
  <2>2. CASE v \in Nat \X Nat
    BY <2>2
  <2> QED
    BY <2>1, <2>2
<1>6. i \in [t : Codecs \union {HeaderKind}, in : {"memory", "stack"}, at : Nat,
             v : (UNION {Shapes[c] : c \in Codecs}) \union (Nat \X Nat)]
  BY <1>3, <1>5 DEF Item
<1> QED
  BY <1>2, <1>3, <1>4, <1>6 DEF Items

\* What is to be written when the first item gives way to others.
LEMMA Replaced ==
  ASSUME NEW S, NEW q \in Seq(S), q # <<>>, NEW more \in Seq(S), NEW next,
         next = more \o Tail(q)
  PROVE  /\ next \in Seq(S) /\ Head(q) = q[1] /\ 1 \in DOMAIN q /\ q[1] \in S
         /\ \A k \in DOMAIN next : \/ k \in DOMAIN more /\ next[k] = more[k]
                                   \/ \E j \in DOMAIN q : j > 1 /\ k = Len(more) + j - 1 /\ next[k] = q[j]
         /\ \A k \in DOMAIN more : k \in DOMAIN next /\ next[k] = more[k]
         /\ \A j \in DOMAIN q : j > 1 => Len(more) + j - 1 \in DOMAIN next
                                         /\ next[Len(more) + j - 1] = q[j]
<1>1. PICK m \in Nat, n \in Nat : m = Len(more) /\ n = Len(q) /\ n > 0
  OBVIOUS
<1>2. PICK r \in Seq(S) : r = Tail(q)
  <2>1. Tail(q) \in Seq(S)
    OBVIOUS
  <2> QED
    BY <2>1
<1>3. Len(r) = n - 1 /\ DOMAIN r = 1..n - 1 /\ \A j \in 1..n - 1 : r[j] = q[j + 1]
  BY <1>1, <1>2
<1>4. /\ next \in Seq(S) /\ DOMAIN next = 1..m + n - 1 /\ DOMAIN more = 1..m /\ DOMAIN q = 1..n
  BY <1>1, <1>2, <1>3
<1>5. \A k \in 1..m + n - 1 : next[k] = IF k <= m THEN more[k] ELSE r[k - m]
  BY <1>1, <1>2, <1>3
<1>6. \A k \in DOMAIN next : \/ k \in DOMAIN more /\ next[k] = more[k]
                             \/ \E j \in DOMAIN q : j > 1 /\ k = m + j - 1 /\ next[k] = q[j]
  <2> TAKE k \in DOMAIN next
  <2>1. CASE k <= m
    BY <2>1, <1>4, <1>5
  <2>2. CASE k > m
    <3>1. PICK j \in DOMAIN q : j = k - m + 1
      BY <2>2, <1>4
    <3>2. j > 1 /\ k = m + j - 1 /\ j - 1 = k - m /\ j - 1 \in 1..n - 1
      BY <2>2, <3>1, <1>4
    <3>3. next[k] = r[j - 1] /\ r[j - 1] = q[j]
      BY <2>2, <3>2, <1>3, <1>4, <1>5, SMTT(30)
    <3> QED
      BY <3>2, <3>3
  <2> QED
    BY <2>1, <2>2, <1>4, SMTT(30)
<1>7. \A k \in DOMAIN more : k \in DOMAIN next /\ next[k] = more[k]
  BY <1>4, <1>5
<1>8. \A j \in DOMAIN q : j > 1 => m + j - 1 \in DOMAIN next /\ next[m + j - 1] = q[j]
  <2> TAKE j \in DOMAIN q
  <2> HAVE j > 1
  <2>1. PICK l \in 1..n - 1 : l + 1 = j
    <3>1. j \in 1..n /\ j > 1
      BY <1>4
    <3>2. j - 1 \in 1..n - 1 /\ (j - 1) + 1 = j
      BY <3>1
    <3> QED
      BY <3>2
  <2>2. r[l] = q[j]
    BY <2>1, <1>3
  <2>3. m + l \in DOMAIN next /\ next[m + l] = r[l]
    BY <1>1, <1>2, <1>3
  <2>4. m + j - 1 = m + l
    BY <2>1
  <2> QED
    BY <2>2, <2>3, <2>4
<1>9. Head(q) = q[1] /\ 1 \in DOMAIN q /\ q[1] \in S
  BY <1>1, <1>4
<1> QED
  BY ONLY <1>1, <1>4, <1>6, <1>7, <1>8, <1>9

\* Items that take cells of the one they replace, or fresh ones, and none twice.
LEMMA StaysApart ==
  ASSUME NEW q \in Seq(Items), q # <<>>, Apart(q), NEW more \in Seq(Items), Apart(more),
         NEW Fresh, Fresh \intersect Pending(q) = {},
         \A k \in DOMAIN more : Cells(more[k]) \subseteq Cells(Head(q)) \union Fresh,
         NEW next, next = more \o Tail(q)
  PROVE  next \in Seq(Items) /\ Apart(next) /\ Pending(next) \subseteq Pending(q) \union Fresh
<1>1. /\ next \in Seq(Items) /\ Head(q) = q[1] /\ 1 \in DOMAIN q
      /\ \A k \in DOMAIN next :
           \/ k \in DOMAIN more /\ next[k] = more[k]
           \/ \E j \in DOMAIN q : j > 1 /\ k = Len(more) + j - 1 /\ next[k] = q[j]
  BY Replaced, SMTT(30)
<1>2. \A j \in DOMAIN q : Cells(q[j]) \subseteq Pending(q)
  BY DEF Pending
<1>3. \A k \in DOMAIN next : Cells(next[k]) \subseteq Pending(q) \union Fresh
  BY <1>1, <1>2
<1>4. \A k \in DOMAIN more, j \in DOMAIN q : j > 1 => Cells(more[k]) \intersect Cells(q[j]) = {}
  <2> TAKE k \in DOMAIN more, j \in DOMAIN q
  <2> HAVE j > 1
  <2>0. j # 1 /\ 1 \in DOMAIN q
    BY <1>1
  <2>1. Cells(q[1]) \intersect Cells(q[j]) = {}
    BY <2>0 DEF Apart
  <2>2. Cells(more[k]) \subseteq Cells(q[1]) \union Fresh /\ Cells(q[j]) \subseteq Pending(q)
    BY <1>1, <1>2
  <2> QED
    BY <2>1, <2>2
<1>5. ASSUME NEW k \in DOMAIN next, NEW l \in DOMAIN next, k # l
      PROVE  Cells(next[k]) \intersect Cells(next[l]) = {}
  <2>1. CASE k \in DOMAIN more /\ next[k] = more[k] /\ l \in DOMAIN more /\ next[l] = more[l]
    BY <2>1, <1>5 DEF Apart
  <2>2. CASE /\ k \in DOMAIN more /\ next[k] = more[k]
             /\ \E j \in DOMAIN q : j > 1 /\ l = Len(more) + j - 1 /\ next[l] = q[j]
    BY <2>2, <1>4
  <2>3. CASE /\ l \in DOMAIN more /\ next[l] = more[l]
             /\ \E j \in DOMAIN q : j > 1 /\ k = Len(more) + j - 1 /\ next[k] = q[j]
    BY <2>3, <1>4
  <2>4. CASE /\ \E j \in DOMAIN q : j > 1 /\ k = Len(more) + j - 1 /\ next[k] = q[j]
             /\ \E j \in DOMAIN q : j > 1 /\ l = Len(more) + j - 1 /\ next[l] = q[j]
    BY <2>4, <1>5 DEF Apart
  <2> QED
    BY <1>1, <2>1, <2>2, <2>3, <2>4
<1>6. Apart(next)
  BY <1>5 DEF Apart
<1>7. Pending(next) \subseteq Pending(q) \union Fresh
  BY <1>3 DEF Pending
<1> QED
  BY <1>1, <1>6, <1>7

\* A completion of the next state that carries the item is one of this state.
LEMMA CompletesBefore ==
  ASSUME NEW q \in Seq(Items), q # <<>>, NEW more \in Seq(Items), NEW next, next = more \o Tail(q),
         NEW Fresh, Pending(next) \subseteq Pending(q) \union Fresh,
         NEW m, NEW st, NEW h, NEW e, NEW m1, NEW st1, NEW h1, NEW e1,
         Keeps(h1, h), Keeps(e1, e),
         Agree(m1, m, "memory", q), Agree(st1, st, "stack", q),
         \A a \in DOMAIN m : <<"memory", a>> \notin Fresh,
         \A a \in DOMAIN st : <<"stack", a>> \notin Fresh,
         NEW S, NEW w, NEW s, Completes(S, w, s, m1, st1, h1, e1, next),
         Carries(S, w, s, Head(q))
  PROVE  Completes(S, w, s, m, st, h, e, q)
<1>1. /\ Head(q) = q[1]
      /\ \A j \in DOMAIN q : j > 1 => Len(more) + j - 1 \in DOMAIN next
                                      /\ next[Len(more) + j - 1] = q[j]
      /\ \A j \in DOMAIN q : j = 1 \/ j > 1
  <2>1. \A j \in DOMAIN q : j = 1 \/ j > 1
    OBVIOUS
  <2> QED
    BY Replaced, <2>1
<1>2. \A j \in DOMAIN q : Carries(S, w, s, q[j])
  <2>1. \A k \in DOMAIN next : Carries(S, w, s, next[k])
    BY DEF Completes
  <2> QED
    BY <1>1, <2>1
<1>3. Keeps(w.handles, h) /\ Keeps(w.extern, e)
  <2>1. Keeps(w.handles, h1) /\ Keeps(w.extern, e1)
    BY DEF Completes
  <2> QED
    BY <2>1 DEF Keeps
<1>4. Agree(w.mem, m, "memory", q)
  <2>1. Agree(w.mem, m1, "memory", next)
    BY DEF Completes
  <2> QED
    BY <2>1 DEF Agree
<1>5. Agree(s, st, "stack", q)
  <2>1. Agree(s, st1, "stack", next)
    BY DEF Completes
  <2> QED
    BY <2>1 DEF Agree
<1> QED
  BY <1>2, <1>3, <1>4, <1>5 DEF Completes

\* A cell that is of no other item, nor of what follows: what is in it stays.
LEMMA Settled ==
  ASSUME NEW q \in Seq(Items), q # <<>>, Apart(q), NEW more \in Seq(Items),
         NEW next, next = more \o Tail(q), NEW c,
         c \in Cells(Head(q)) \/ c \notin Pending(q),
         \A k \in DOMAIN more : c \notin Cells(more[k])
  PROVE  c \notin Pending(next)
<1>1. /\ Head(q) = q[1] /\ 1 \in DOMAIN q
      /\ \A k \in DOMAIN next :
           \/ k \in DOMAIN more /\ next[k] = more[k]
           \/ \E j \in DOMAIN q : j > 1 /\ next[k] = q[j]
  BY Replaced
<1>2. ASSUME NEW j \in DOMAIN q, j > 1
      PROVE  c \notin Cells(q[j])
  <2>1. j # 1
    BY <1>2
  <2>2. Cells(q[1]) \intersect Cells(q[j]) = {}
    BY <1>1, <2>1 DEF Apart
  <2>3. Cells(q[j]) \subseteq Pending(q)
    BY DEF Pending
  <2> QED
    BY <1>1, <2>2, <2>3
<1>3. \A k \in DOMAIN next : c \notin Cells(next[k])
  BY <1>1, <1>2
<1> QED
  BY <1>3 DEF Pending

\* The bytes of a number, and the number that is found where they are.
Lies(m, at, width, v) ==
  \A a \in at..at + width - 1 : a \in DOMAIN m /\ m[a] = <<v, a - at + 1>>

\* The number is what a reader gets there.
LEMMA StoredIs ==
  ASSUME NEW m, NEW at \in Nat, NEW width \in {1, 4}, NEW v, Lies(m, at, width, v)
  PROVE  Stored(m, at, width) = v
<1>0. \A a \in at..at + width - 1 : a \in DOMAIN m /\ m[a] = <<v, a - at + 1>>
  BY DEF Lies
<1>1. at \in at..at + width - 1
  OBVIOUS
<1>2. m[at][1] = v
  BY <1>0, <1>1
<1>3. at..at + width - 1 \subseteq DOMAIN m
  BY <1>0
<1>4. \A a \in at..at + width - 1 : m[a] = <<m[at][1], a - at + 1>>
  BY <1>0, <1>2
<1> QED
  BY <1>2, <1>3, <1>4 DEF Stored

\* A number, in memory.
NumberAt(w, t, at, v) ==
  t \in Codecs /\ t.k \in {"byte", "word"} /\ at \in Nat /\ Lies(w.mem, at, t.size, v)

\* A reader finds it.
LEMMA NumberFound ==
  ASSUME NEW S, NEW w, NEW t, NEW at, NEW v, NumberAt(w, t, at, v)
  PROVE  Finds(S, w)[t][at] = v
<1>0. t \in Codecs /\ t.k \in {"byte", "word"} /\ at \in Nat /\ Lies(w.mem, at, t.size, v)
  BY DEF NumberAt
<1>1. t.k = "byte" => t.size = 1
  BY <1>0, CodecsSound DEF Sound
<1>2. t.k = "word" => t.size = 4
  BY <1>0, CodecsSound DEF Sound
<1>3. PICK n \in {1, 4} : n = t.size
  BY <1>0, <1>1, <1>2
<1>6. PICK m : m = w.mem
  OBVIOUS
<1>7. Lies(m, at, n, v)
  BY <1>0, <1>3, <1>6
<1>4. Stored(m, at, n) = v
  BY <1>0, <1>7, StoredIs
<1>5. Found(S, Finds(S, w), t, w, at) = v
  BY <1>0, <1>1, <1>2, <1>3, <1>4, <1>6 DEF Found, Byte, Word
<1> QED
  BY <1>0, <1>5, FindsAt

\* A case whose discriminant is written and whose payload is found.
CaseAt(S, w, t, at, v) ==
  /\ S \in Sides /\ t \in Codecs /\ t.k = "case" /\ at \in Nat
  /\ \E d \in DOMAIN t.payloads :
       /\ at \in DOMAIN w.mem /\ w.mem[at] = <<d - 1, 1>>
       /\ v = <<d - 1, Finds(S, w)[t.payloads[d]][at + t.guest.at]>>

\* A reader finds it, with its payload.
LEMMA CaseFound ==
  ASSUME NEW S, NEW w, NEW t, NEW at, NEW v, CaseAt(S, w, t, at, v)
  PROVE  Finds(S, w)[t][at] = v
<1>1. S \in Sides /\ t \in Codecs /\ t.k = "case" /\ at \in Nat
  BY DEF CaseAt
<1>2. PICK d \in DOMAIN t.payloads :
         /\ at \in DOMAIN w.mem /\ w.mem[at] = <<d - 1, 1>>
         /\ v = <<d - 1, Finds(S, w)[t.payloads[d]][at + t.guest.at]>>
  BY DEF CaseAt
<1>3. PICK m, b : m = w.mem /\ b = d - 1
  OBVIOUS
<1>4. b + 1 = d
  BY <1>1, <1>3, CodecsSound DEF Sound, SoundCase
<1>5. Lies(m, at, 1, b)
  BY <1>1, <1>2, <1>3 DEF Lies
<1>6. Byte(w.mem, at) = b
  BY <1>1, <1>3, <1>5, StoredIs DEF Byte
<1>7. PICK f : f = Finds(S, w)
  OBVIOUS
<1>8. Chosen(S, f, t, b, at) = v
  BY <1>1, <1>2, <1>3, <1>4, <1>7, SameLayout DEF Chosen
<1>9. Found(S, f, t, w, at) = v
  BY <1>1, <1>6, <1>8 DEF Found
<1> QED
  BY <1>1, <1>7, <1>9, FindsAt

\* A record whose fields are found.
RecordAt(S, w, t, at, v) ==
  /\ S \in Sides /\ t \in Codecs /\ t.k = "record" /\ at \in Nat
  /\ v = [i \in DOMAIN t.fields |-> v[i]]
  /\ \A i \in DOMAIN t.fields : Finds(S, w)[t.fields[i]][at + t.guest.offsets[i]] = v[i]

\* A reader finds the record.
LEMMA RecordFound ==
  ASSUME NEW S, NEW w, NEW t, NEW at, NEW v, RecordAt(S, w, t, at, v)
  PROVE  Finds(S, w)[t][at] = v
<1>1. S \in Sides /\ t \in Codecs /\ t.k = "record" /\ at \in Nat
  BY DEF RecordAt
<1>2. PICK f : f = Finds(S, w)
  OBVIOUS
<1>3. \A i \in DOMAIN t.fields : f[t.fields[i]][at + t[S].offsets[i]] = v[i]
  BY <1>1, <1>2, SameLayout DEF RecordAt
<1>4. [i \in DOMAIN t.fields |-> f[t.fields[i]][at + t[S].offsets[i]]] = [i \in DOMAIN t.fields |-> v[i]]
  BY <1>3
<1>5. v = [i \in DOMAIN t.fields |-> v[i]]
  BY DEF RecordAt
<1>6. Found(S, f, t, w, at) = v
  BY <1>1, <1>4, <1>5 DEF Found
<1> QED
  BY <1>1, <1>2, <1>6, FindsAt

\* An owned handle that stands for the library.
OwnAt(w, t, at, v) ==
  /\ t \in Codecs /\ t.k = "own" /\ at \in Nat
  /\ \E h \in DOMAIN w.handles :
       /\ Lies(w.mem, at, 4, h) /\ w.handles[h] \in DOMAIN w.extern /\ w.extern[w.handles[h]] = v

\* A reader finds the library.
LEMMA OwnFound ==
  ASSUME NEW S, NEW w, NEW t, NEW at, NEW v, OwnAt(w, t, at, v)
  PROVE  Finds(S, w)[t][at] = v
<1>1. t \in Codecs /\ t.k = "own" /\ at \in Nat
  BY DEF OwnAt
<1>2. PICK h \in DOMAIN w.handles :
        /\ Lies(w.mem, at, 4, h) /\ w.handles[h] \in DOMAIN w.extern /\ w.extern[w.handles[h]] = v
  BY DEF OwnAt
<1>3. PICK m : m = w.mem
  OBVIOUS
<1>4. Lies(m, at, 4, h)
  BY <1>2, <1>3
<1>5. Word(w.mem, at) = h
  BY <1>1, <1>3, <1>4, StoredIs DEF Word
<1>6. Owned(w, h) = v
  BY <1>2 DEF Owned
<1>7. Found(S, Finds(S, w), t, w, at) = v
  BY <1>1, <1>5, <1>6 DEF Found
<1> QED
  BY <1>1, <1>7, FindsAt

\* Elements that follow each other in a block are apart, and fill it.
LEMMA Strided ==
  ASSUME NEW stride \in {1, 8, 12, 16}, NEW n \in Nat
  PROVE  /\ n * stride \in Nat
         /\ \A e \in 1..n : /\ (e - 1) * stride \in Nat
                            /\ (e - 1) * stride + stride <= n * stride
         /\ \A e, f \in 1..n : e < f => (e - 1) * stride + stride <= (f - 1) * stride
<1>1. CASE stride = 1
  BY <1>1
<1>2. CASE stride = 8
  BY <1>2
<1>3. CASE stride = 12
  BY <1>3
<1>4. CASE stride = 16
  BY <1>4
<1> QED
  BY <1>1, <1>2, <1>3, <1>4

\* The elements of a string or list, at the addresses they were written to.
ElementsAt(S, w, t, block, n, v) ==
  /\ S \in Sides /\ t \in Codecs /\ t.k \in {"string", "list"} /\ block \in Nat /\ n \in Nat
  /\ v = [e \in 1..n |-> v[e]]
  /\ block + n * t.guest.stride <= MemSize /\ block % t.guest.align = 0
  /\ \A e \in 1..n : Finds(S, w)[t.elem][block + (e - 1) * t.guest.stride] = v[e]

\* A reader finds them all.
LEMMA ElementsFound ==
  ASSUME NEW S, NEW w, NEW t, NEW block, NEW n, NEW v, ElementsAt(S, w, t, block, n, v)
  PROVE  Elements(S, Finds(S, w), t, block, n) = v
<1>1. PICK f : f = Finds(S, w)
  OBVIOUS
<1>2. /\ S \in Sides /\ t \in Codecs /\ t.k \in {"string", "list"} /\ block \in Nat /\ n \in Nat
      /\ v = [e \in 1..n |-> v[e]] /\ block % t.guest.align = 0
  BY DEF ElementsAt
<1>3. PICK stride \in {1, 8, 12, 16} : stride = t.guest.stride
  BY <1>2, CodecsSound DEF Sound, SoundList
<1>4. t[S].stride = stride /\ t[S].align = t.guest.align
  BY <1>2, <1>3, SameLayout
<1>5. PICK end \in Nat : end = n * stride
  BY <1>2, <1>3, Strided
<1>6. block + end <= MemSize
  BY <1>3, <1>5 DEF ElementsAt
<1>7. ~ (block + end > MemSize)
  BY <1>2, <1>6, SizesAssumption
<1>8. \A e \in 1..n : f[t.elem][block + (e - 1) * stride] = v[e]
  BY <1>1, <1>3 DEF ElementsAt
<1>9. [i \in 1..n |-> f[t.elem][block + (i - 1) * stride]] = [i \in 1..n |-> v[i]]
  BY <1>8
<1>10. n * t[S].stride = end
  BY <1>4, <1>5
<1>11. Elements(S, f, t, block, n) = [i \in 1..n |-> f[t.elem][block + (i - 1) * stride]]
  BY <1>2, <1>4, <1>7, <1>10 DEF Elements
<1> QED
  BY <1>1, <1>2, <1>9, <1>11

\* So is the string or list that the header leads to.
LEMMA ListCarried ==
  ASSUME NEW S \in Sides, NEW w, NEW s, NEW i \in Items, i.t \in Codecs,
         NEW block, NEW n, ElementsAt(S, w, i.t, block, n, i.v),
         Carries(S, w, s, Header(i, block, n))
  PROVE  Carries(S, w, s, i)
<1>0. i.t.k \in {"string", "list"} /\ Elements(S, Finds(S, w), i.t, block, n) = i.v
  BY ElementsFound DEF ElementsAt
<1>1. PICK h : h = Header(i, block, n)
  OBVIOUS
<1>2. /\ h.t = HeaderKind /\ h.in = i.in /\ h.at = i.at /\ h.v[1] = block /\ h.v[2] = n
  BY <1>1 DEF Header, Item, HeaderKind
<1>3. i.t # HeaderKind /\ i.in \in {"memory", "stack"} /\ i.at \in Nat
  BY ItemIs
<1>4. CASE i.in = "memory"
  <2>1. Word(w.mem, i.at) = block /\ Word(w.mem, i.at + 4) = n
    BY <1>1, <1>2, <1>4 DEF Carries
  <2>2. i.t[S].lenAt = 4
    BY <1>0, SameLayout, CodecsSound DEF Sound, SoundList
  <2>3. Found(S, Finds(S, w), i.t, w, i.at) = i.v
    BY <1>0, <2>1, <2>2 DEF Found
  <2>4. Finds(S, w)[i.t][i.at] = i.v
    BY <2>3, <1>3, FindsAt
  <2> QED
    BY <2>4, <1>3, <1>4 DEF Carries
<1>5. CASE i.in = "stack"
  <2>1. s[i.at] = block /\ s[i.at + 1] = n
    BY <1>1, <1>2, <1>5 DEF Carries
  <2> QED
    BY <1>0, <2>1, <1>3, <1>5 DEF Carries
<1> QED
  BY <1>3, <1>4, <1>5

-----------------------------------------------------------------------------
(* The inductive invariant.                                                *)

Given == UNION {b[1]..b[1] + b[2] - 1 : b \in blocks}

TypeOK ==
  /\ free \in Nat /\ todo \in Seq(Items) /\ handles \in Seq(Nat) /\ extern \in Seq(Nat)
  /\ phase \in {"idle", "lowering", "implementation", "answered", "writing", "returned", "trapped"}
  /\ phase \notin {"idle", "trapped"} => fn \in DOMAIN HostFunctions
  /\ phase = "answered" => result \in Shapes[Codec.result]
  /\ \A j \in DOMAIN todo :
        todo[j].in = "stack" /\ todo[j].t.k = "borrow" => todo[j].v \in DOMAIN handles

\* What is written, and what is to be, lies in the blocks given, and nothing twice.
BlocksOK ==
  /\ \A a \in Given \union DOMAIN mem : a \in Nat /\ a < free
  /\ touched \subseteq Given
  /\ \A a : <<"memory", a>> \in Pending(todo) => a \in Given
  /\ Apart(todo)

Argument(i) ==
  Item(Codec.params[i].codec, "stack", FirstSlots(CodecsOf(Codec))[i], args[i])

\* What the other side will find: every argument, or the result.
Reader == IF phase = "lowering" THEN "host" ELSE "guest"
Arrives(w, s) ==
  IF phase = "lowering" THEN \A i \in DOMAIN Codec.params : Carries("host", w, s, Argument(i))
  ELSE Finds("guest", w)[Codec.result][out] = result

\* However the writing is completed.
Arriving ==
  phase \in {"lowering", "writing"} =>
    \A w, s : Completes(Reader, w, s, mem, stack, handles, extern, todo) => Arrives(w, s)

\* Where the first item gives way to others: what each step of writing has to show.
LEMMA WriteStep ==
  ASSUME TypeOK, BlocksOK, Arriving, todo # <<>>, phase \in {"lowering", "writing"},
         NEW more \in Seq(Items), Apart(more), todo' = more \o Tail(todo),
         NEW new, NEW wrote,
         \A k \in DOMAIN more :
            /\ Cells(more[k]) \subseteq Cells(Head(todo)) \union {<<"memory", a>> : a \in new}
            /\ more[k].in = "stack" => more[k].t = HeaderKind,
         free' \in Nat, free' >= free, \A a \in new : a \in Nat /\ free <= a /\ a < free',
         Given' = Given \union new,
         touched' = touched \union wrote,
         \A a \in wrote : a \in new \/ <<"memory", a>> \in Cells(Head(todo)),
         DOMAIN mem' \subseteq DOMAIN mem \union wrote,
         \A a \in DOMAIN mem : a \notin wrote => a \in DOMAIN mem' /\ mem'[a] = mem[a],
         Agree(stack', stack, "stack", todo),
         handles' \in Seq(Nat), extern' \in Seq(Nat), Keeps(handles', handles), Keeps(extern', extern),
         UNCHANGED Outer,
         \A w, s : Completes(Reader, w, s, mem', stack', handles', extern', todo')
                     => Carries(Reader, w, s, Head(todo))
  PROVE  TypeOK' /\ BlocksOK' /\ Arriving'
<1> DEFINE Fresh == {<<"memory", a>> : a \in new}
<1>0. /\ todo \in Seq(Items) /\ free \in Nat /\ Apart(todo)
      /\ phase' = phase /\ fn' = fn /\ args' = args /\ result' = result /\ out' = out
  BY DEF TypeOK, BlocksOK, Outer
<1>1. \A a \in new : a \notin Given /\ a \notin DOMAIN mem
  BY <1>0 DEF BlocksOK
<1>2. Fresh \intersect Pending(todo) = {}
  BY <1>1 DEF BlocksOK
<1>3. todo' \in Seq(Items) /\ Apart(todo') /\ Pending(todo') \subseteq Pending(todo) \union Fresh
  <2>1. PICK q, next : q = todo /\ next = todo'
    OBVIOUS
  <2>2. /\ q \in Seq(Items) /\ q # <<>> /\ Apart(q) /\ Fresh \intersect Pending(q) = {}
        /\ next = more \o Tail(q)
        /\ \A k \in DOMAIN more : Cells(more[k]) \subseteq Cells(Head(q)) \union Fresh
    BY <1>0, <1>2, <2>1
  <2> HIDE DEF Fresh
  <2>3. next \in Seq(Items) /\ Apart(next) /\ Pending(next) \subseteq Pending(q) \union Fresh
    BY <2>2, StaysApart
  <2> QED
    BY <2>1, <2>3
<1>4. Agree(mem', mem, "memory", todo)
  <2> SUFFICES ASSUME NEW a \in DOMAIN mem, <<"memory", a>> \notin Pending(todo)
               PROVE  a \in DOMAIN mem' /\ mem'[a] = mem[a]
    BY DEF Agree
  <2>1. Cells(Head(todo)) \subseteq Pending(todo)
    BY <1>0, Replaced DEF Pending
  <2>2. a \notin wrote
    BY <1>1, <2>1
  <2> QED
    BY <2>2
<1>5. TypeOK'
  <2>1. \A j \in DOMAIN todo' :
          todo'[j].in = "stack" /\ todo'[j].t.k = "borrow" => todo'[j].v \in DOMAIN handles'
    <3>1. HeaderKind.k = "header"
      BY DEF HeaderKind
    <3>2. \A k \in DOMAIN more : ~ (more[k].in = "stack" /\ more[k].t.k = "borrow")
      BY <3>1
    <3>3. \A j \in DOMAIN todo' :
            \/ j \in DOMAIN more /\ todo'[j] = more[j]
            \/ \E l \in DOMAIN todo : todo'[j] = todo[l]
      BY <1>0, Replaced, SMTT(30)
    <3>4. \A h \in DOMAIN handles : h \in DOMAIN handles'
      BY DEF Keeps
    <3> QED
      BY <3>2, <3>3, <3>4, SMTT(30) DEF TypeOK
  <2>2. phase' # "answered"
    BY <1>0
  <2> QED
    BY <1>0, <1>3, <2>1, <2>2 DEF TypeOK
<1>6. BlocksOK'
  <2>1. \A a \in Given' \union DOMAIN mem' : a \in Nat /\ a < free'
    <3>1. Cells(Head(todo)) \subseteq Pending(todo)
      BY <1>0, Replaced DEF Pending
    <3>2. \A a \in wrote : a \in new \/ a \in Given
      BY <3>1 DEF BlocksOK
    <3>3. \A a \in Given \union DOMAIN mem : a \in Nat /\ a < free'
      BY <1>0 DEF BlocksOK
    <3> QED
      BY <3>2, <3>3
  <2>2. touched' \subseteq Given'
    <3>1. Cells(Head(todo)) \subseteq Pending(todo)
      BY <1>0, Replaced DEF Pending
    <3> QED
      BY <3>1 DEF BlocksOK
  <2>3. \A a : <<"memory", a>> \in Pending(todo') => a \in Given'
    BY <1>3 DEF BlocksOK
  <2> QED
    BY <1>3, <2>1, <2>2, <2>3 DEF BlocksOK
<1>7. Arriving'
  <2>1. Reader' = Reader /\ \A w, s : Arrives(w, s)' <=> Arrives(w, s)
    BY <1>0 DEF Reader, Arrives, Argument, Codec
  <2>2. ASSUME NEW w, NEW s, Completes(Reader, w, s, mem', stack', handles', extern', todo')
        PROVE  Arrives(w, s)
    <3>1. Carries(Reader, w, s, Head(todo))
      BY <2>2
    <3>2. /\ \A a \in DOMAIN mem : <<"memory", a>> \notin Fresh
          /\ \A a \in DOMAIN stack : <<"stack", a>> \notin Fresh
      BY <1>1
    <3>3. Completes(Reader, w, s, mem, stack, handles, extern, todo)
      <4> HIDE DEF Fresh
      <4> QED
        BY <1>0, <1>3, <1>4, <2>2, <3>1, <3>2, CompletesBefore
    <3> QED
      BY <3>3 DEF Arriving
  <2> QED
    BY <2>1, <2>2 DEF Arriving
<1> QED
  BY <1>5, <1>6, <1>7

-----------------------------------------------------------------------------
(* The steps of writing.                                                   *)

\* The cells from an address on are the first item's or fresh, and none of those after it.
Claimed(q, more, in, at, n) ==
  \A a \in at..at + n - 1 : /\ <<in, a>> \in Cells(Head(q)) \/ <<in, a>> \notin Pending(q)
                            /\ \A k \in DOMAIN more : <<in, a>> \notin Cells(more[k])
\* Bytes at an address.
Lie(m, at, bytes) ==
  \A a \in at..at + Len(bytes) - 1 : a \in DOMAIN m /\ m[a] = bytes[a - at + 1]

\* What is put on cells that nothing else takes is found there in the end.
LEMMA PutStays ==
  ASSUME NEW q \in Seq(Items), q # <<>>, Apart(q), NEW more \in Seq(Items), NEW next,
         next = more \o Tail(q), NEW in, NEW m, NEW at \in Nat, NEW U, NEW bytes \in Seq(U),
         Claimed(q, more, in, at, Len(bytes)),
         NEW m1, m1 = Put(m, at, bytes), NEW final, Agree(final, m1, in, next)
  PROVE  Lie(final, at, bytes)
<1> SUFFICES \A a \in at..at + Len(bytes) - 1 : a \in DOMAIN final /\ final[a] = bytes[a - at + 1]
  BY DEF Lie
<1> TAKE a \in at..at + Len(bytes) - 1
<1>1. PICK c : c = <<in, a>>
  OBVIOUS
<1>2. c \notin Pending(next)
  <2>1. c \in Cells(Head(q)) \/ c \notin Pending(q)
    BY <1>1 DEF Claimed
  <2>2. \A k \in DOMAIN more : c \notin Cells(more[k])
    BY <1>1 DEF Claimed
  <2> QED
    BY <2>1, <2>2, Settled
<1>3. a \in DOMAIN m1 /\ m1[a] = bytes[a - at + 1]
  BY DEF Put
<1> QED
  BY <1>1, <1>2, <1>3 DEF Agree

\* The bytes of a number.
LEMMA IntBytesAre ==
  ASSUME NEW v, NEW n \in Nat
  PROVE  /\ IntBytes(v, n) \in Seq({v} \X Nat) /\ Len(IntBytes(v, n)) = n
         /\ \A k \in 1..n : IntBytes(v, n)[k] = <<v, k>>
<1>1. PICK b : b = [i \in 1..n |-> <<v, i>>]
  OBVIOUS
<1>2. \A k \in 1..n : b[k] = <<v, k>> /\ b[k] \in {v} \X Nat
  BY <1>1
<1>3. b \in [1..n -> {v} \X Nat]
  BY <1>1, <1>2
<1>4. b \in Seq({v} \X Nat) /\ Len(b) = n
  BY <1>3
<1> QED
  BY <1>1, <1>2, <1>4 DEF IntBytes

\* The first item, and its cells.
LEMMA FirstItem ==
  ASSUME TypeOK, todo # <<>>
  PROVE  /\ Head(todo) \in Items /\ Head(todo) = todo[1] /\ 1 \in DOMAIN todo
         /\ todo \in Seq(Items) /\ Tail(todo) = <<>> \o Tail(todo)
         /\ <<>> \in Seq(Items) /\ Apart(<<>>)
<1>1. todo \in Seq(Items)
  BY DEF TypeOK
<1>2. Apart(<<>>)
  BY DEF Apart
<1> QED
  BY <1>1, <1>2

\* A number or a header is put onto the stack.
LEMMA PushStep ==
  ASSUME TypeOK, BlocksOK, Arriving, Push
  PROVE  TypeOK' /\ BlocksOK' /\ Arriving'
<1>1. PICK i : i = Head(todo)
  OBVIOUS
<1>2. /\ phase \in {"lowering", "writing"} /\ todo # <<>>
      /\ i.t.k \in {"byte", "word", "borrow", "header"} /\ i.in = "stack"
      /\ todo' = Tail(todo) /\ UNCHANGED <<mem, touched, free, blocks, extern, handles, Outer>>
  BY <1>1 DEF Push, Writing
<1>3. PICK bytes : /\ stack' = Put(stack, i.at, bytes)
                   /\ bytes = IF i.t.k = "header" THEN i.v
                              ELSE IF i.t.k = "borrow" THEN <<handles[i.v]>> ELSE <<i.v>>
  BY <1>1 DEF Push
<1>4. /\ i \in Items /\ i = todo[1] /\ 1 \in DOMAIN todo /\ todo \in Seq(Items)
      /\ Tail(todo) = <<>> \o Tail(todo) /\ <<>> \in Seq(Items) /\ Apart(<<>>)
  BY <1>1, <1>2, FirstItem
<1>5. /\ i.at \in Nat
      /\ i.t = HeaderKind \/ i.t \in Codecs
      /\ i.t = HeaderKind => i.t \notin Codecs /\ i.v \in Nat \X Nat
      /\ i.t.k = "header" <=> i.t = HeaderKind
  BY <1>4, ItemIs
<1>6. PICK U : bytes \in Seq(U)
  <2>1. CASE i.t = HeaderKind
    <3>1. bytes = i.v /\ i.v \in Nat \X Nat
      BY <1>3, <1>5, <2>1
    <3>2. PICK x \in Nat, y \in Nat : bytes = <<x, y>>
      BY <3>1
    <3>3. <<x, y>> \in Seq(Nat)
      OBVIOUS
    <3> QED
      BY <3>2, <3>3
  <2>2. CASE i.t # HeaderKind
    <3>1. PICK x : bytes = <<x>>
      BY <1>3, <1>5, <2>2
    <3>2. bytes \in Seq({x})
      BY <3>1
    <3> QED
      BY <3>2
  <2> QED
    BY <2>1, <2>2
<1>7. Len(bytes) = Room(i)
  <2>1. CASE i.t = HeaderKind
    <3>1. bytes = i.v /\ i.v \in Nat \X Nat
      BY <1>3, <1>5, <2>1
    <3> QED
      BY <3>1, <2>1, <1>2 DEF Room
  <2>2. CASE i.t # HeaderKind
    <3>1. i.t \in Codecs /\ i.t.k \in {"byte", "word", "borrow"}
      BY <1>2, <1>5, <2>2
    <3>2. i.t.guest.slots = 1
      BY <3>1, CodecsSound DEF Sound
    <3>3. Len(bytes) = 1
      BY <1>3, <1>5, <2>2
    <3> QED
      BY <3>2, <3>3, <2>2, <1>2 DEF Room
  <2> QED
    BY <2>1, <2>2
<1>8. \A a \in i.at..i.at + Len(bytes) - 1 : <<"stack", a>> \in Cells(i)
  BY <1>2, <1>7 DEF Cells
<1>9. Cells(i) \subseteq Pending(todo)
  BY <1>4 DEF Pending
<1>10. Agree(stack', stack, "stack", todo)
  <2> SUFFICES ASSUME NEW a \in DOMAIN stack, <<"stack", a>> \notin Pending(todo)
               PROVE  a \in DOMAIN stack' /\ stack'[a] = stack[a]
    BY DEF Agree
  <2>1. a \notin i.at..i.at + Len(bytes) - 1
    BY <1>8, <1>9
  <2> QED
    BY <2>1, <1>3, <1>5, <1>6 DEF Put
<1>11. ASSUME NEW w, NEW s, Completes(Reader, w, s, mem', stack', handles', extern', todo')
       PROVE  Carries(Reader, w, s, i)
  <2>1. Agree(s, stack', "stack", todo') /\ Keeps(w.handles, handles')
    BY <1>11 DEF Completes
  <2>2. \A a \in i.at..i.at + Len(bytes) - 1 : a \in DOMAIN s /\ s[a] = bytes[a - i.at + 1]
    <3>1. PICK q, next, none, st : q = todo /\ next = todo' /\ none = <<>> /\ st = stack'
      OBVIOUS
    <3>2. PICK at \in Nat : at = i.at
      BY <1>5
    <3>3. /\ q \in Seq(Items) /\ q # <<>> /\ Apart(q) /\ none \in Seq(Items)
          /\ next = none \o Tail(q) /\ DOMAIN none = {}
          /\ st = Put(stack, at, bytes) /\ Agree(s, st, "stack", next)
      BY <1>2, <1>3, <1>4, <2>1, <3>1, <3>2 DEF BlocksOK
    <3>4. \A a \in at..at + Len(bytes) - 1 : <<"stack", a>> \in Cells(Head(q))
      BY <1>1, <1>8, <3>1, <3>2
    <3>5. Claimed(q, none, "stack", at, Len(bytes))
      BY <3>3, <3>4 DEF Claimed
    <3>6. Lie(s, at, bytes)
      BY ONLY <3>3, <3>5, <1>6, PutStays, <3>2
    <3> QED
      BY <3>2, <3>6 DEF Lie
  <2>3. CASE i.t = HeaderKind
    <3>1. bytes = i.v /\ Len(bytes) = 2
      BY <1>2, <1>3, <1>5, <1>7, <2>3 DEF Room
    <3>2. s[i.at] = i.v[1] /\ s[i.at + 1] = i.v[2]
      BY <2>2, <3>1, <1>5
    <3> QED
      BY <3>2, <2>3, <1>2 DEF Carries
  <2>4. CASE i.t # HeaderKind
    <3>1. Len(bytes) = 1 /\ s[i.at] = bytes[1]
      <4>1. Len(bytes) = 1
        BY <1>3, <1>5, <2>4
      <4> QED
        BY <4>1, <2>2, <1>5
    <3>2. CASE i.t.k = "borrow"
      <4>1. i.v \in DOMAIN handles
        BY <1>2, <1>4, <3>2 DEF TypeOK
      <4>2. handles' = handles /\ bytes = <<handles[i.v]>>
        BY <1>2, <1>3, <3>2
      <4>3. s[i.at] = w.handles[i.v]
        BY <2>1, <3>1, <4>1, <4>2 DEF Keeps
      <4> QED
        BY <4>3, <2>4, <3>2, <1>2 DEF Carries
    <3>3. CASE i.t.k # "borrow"
      <4>1. i.t.k \in {"byte", "word"} /\ bytes = <<i.v>>
        BY <1>2, <1>3, <1>5, <2>4, <3>3
      <4> QED
        BY <4>1, <3>1, <2>4, <1>2 DEF Carries
    <3> QED
      BY <3>2, <3>3
  <2> QED
    BY <2>3, <2>4
<1>12. PICK none : none = <<>>
  OBVIOUS
<1>13. /\ none \in Seq(Items) /\ Apart(none) /\ todo' = none \o Tail(todo) /\ DOMAIN none = {}
  BY <1>2, <1>4, <1>12
<1>14. /\ free' = free /\ free \in Nat /\ Given' = Given /\ touched' = touched /\ mem' = mem
       /\ handles' = handles /\ extern' = extern /\ handles \in Seq(Nat) /\ extern \in Seq(Nat)
       /\ UNCHANGED Outer
  BY <1>2 DEF TypeOK, Given
<1>15. Keeps(handles', handles) /\ Keeps(extern', extern)
  BY <1>14 DEF Keeps
<1> QED
  <2>1. PICK empty : empty = {}
    OBVIOUS
  <2>2. /\ \A k \in DOMAIN none :
            /\ Cells(none[k]) \subseteq Cells(Head(todo)) \union {<<"memory", a>> : a \in empty}
            /\ none[k].in = "stack" => none[k].t = HeaderKind
        /\ free' \in Nat /\ free' >= free /\ \A a \in empty : a \in Nat /\ free <= a /\ a < free'
        /\ Given' = Given \union empty /\ touched' = touched \union empty
        /\ \A a \in empty : a \in empty \/ <<"memory", a>> \in Cells(Head(todo))
        /\ DOMAIN mem' \subseteq DOMAIN mem \union empty
        /\ \A a \in DOMAIN mem : a \notin empty => a \in DOMAIN mem' /\ mem'[a] = mem[a]
    BY <1>13, <1>14, <2>1
  <2>3. \A w, s : Completes(Reader, w, s, mem', stack', handles', extern', todo')
                    => Carries(Reader, w, s, Head(todo))
    BY <1>1, <1>11
  <2>4. handles' \in Seq(Nat) /\ extern' \in Seq(Nat)
    BY <1>14
  <2> QED
    BY ONLY <1>2, <1>10, <1>13, <1>14, <1>15, <2>2, <2>3, <2>4, TypeOK, BlocksOK, Arriving, WriteStep

\* The items that take the place of the first one: within its cells, or fresh.
Follow(more, new) ==
  /\ more \in Seq(Items) /\ Apart(more)
  /\ \A k \in DOMAIN more :
        /\ Cells(more[k]) \subseteq Cells(Head(todo)) \union {<<"memory", a>> : a \in new}
        /\ more[k].in = "stack" => more[k].t = HeaderKind

\* What a completion says of them.
LEMMA FollowCarried ==
  ASSUME NEW q \in Seq(Items), q # <<>>, NEW more \in Seq(Items), NEW next, next = more \o Tail(q),
         NEW S, NEW w, NEW s, NEW m, NEW st, NEW h, NEW e, Completes(S, w, s, m, st, h, e, next)
  PROVE  /\ \A k \in DOMAIN more : Carries(S, w, s, more[k])
         /\ Keeps(w.handles, h) /\ Keeps(w.extern, e) /\ Agree(w.mem, m, "memory", next)
<1>1. \A k \in DOMAIN more : k \in DOMAIN next /\ next[k] = more[k]
  BY Replaced
<1>2. \A k \in DOMAIN next : Carries(S, w, s, next[k])
  BY DEF Completes
<1>3. Keeps(w.handles, h) /\ Keeps(w.extern, e) /\ Agree(w.mem, m, "memory", next)
  BY DEF Completes
<1> QED
  BY <1>1, <1>2, <1>3

\* A step that writes bytes.
LEMMA MemoryStep ==
  ASSUME TypeOK, BlocksOK, Arriving, todo # <<>>, phase \in {"lowering", "writing"},
         NEW more, NEW new, Follow(more, new), NEW at \in Nat, NEW U, NEW bytes \in Seq(U),
         Write(at, bytes, more),
         free' \in Nat, free' >= free, \A a \in new : a \in Nat /\ free <= a /\ a < free',
         Given' = Given \union new,
         \A a \in at..at + Len(bytes) - 1 :
            /\ a \in new \/ <<"memory", a>> \in Cells(Head(todo))
            /\ \A k \in DOMAIN more : <<"memory", a>> \notin Cells(more[k]),
         stack' = stack,
         handles' \in Seq(Nat), extern' \in Seq(Nat), Keeps(handles', handles), Keeps(extern', extern),
         UNCHANGED Outer,
         \A w, s : /\ Lie(w.mem, at, bytes) /\ \A k \in DOMAIN more : Carries(Reader, w, s, more[k])
                   /\ Keeps(w.handles, handles') /\ Keeps(w.extern, extern')
                   => Carries(Reader, w, s, Head(todo))
  PROVE  TypeOK' /\ BlocksOK' /\ Arriving'
<1>1. PICK wrote : wrote = at..at + Len(bytes) - 1
  OBVIOUS
<1>2. /\ mem' = Put(mem, at, bytes) /\ touched' = touched \union wrote /\ todo' = more \o Tail(todo)
  BY <1>1 DEF Write
<1>3. /\ DOMAIN mem' \subseteq DOMAIN mem \union wrote
      /\ \A a \in DOMAIN mem : a \notin wrote => a \in DOMAIN mem' /\ mem'[a] = mem[a]
  BY <1>1, <1>2 DEF Put
<1>4. /\ more \in Seq(Items) /\ Apart(more)
      /\ \A k \in DOMAIN more :
            /\ Cells(more[k]) \subseteq Cells(Head(todo)) \union {<<"memory", a>> : a \in new}
            /\ more[k].in = "stack" => more[k].t = HeaderKind
  BY DEF Follow
<1>5. Claimed(todo, more, "memory", at, Len(bytes))
  <2>1. \A a \in new : <<"memory", a>> \notin Pending(todo)
    <3>1. \A a \in new : a \notin Given
      BY DEF BlocksOK, TypeOK
    <3>2. \A a : <<"memory", a>> \in Pending(todo) => a \in Given
      BY DEF BlocksOK
    <3> QED
      BY ONLY <3>1, <3>2
  <2> QED
    BY <2>1 DEF Claimed
<1>6. ASSUME NEW w, NEW s, Completes(Reader, w, s, mem', stack', handles', extern', todo')
      PROVE  Carries(Reader, w, s, Head(todo))
  <2>1. PICK q, next, m1, S : q = todo /\ next = todo' /\ m1 = mem' /\ S = Reader
    OBVIOUS
  <2>2. q \in Seq(Items) /\ q # <<>> /\ Apart(q) /\ next = more \o Tail(q)
    BY <1>2, <2>1 DEF TypeOK, BlocksOK
  <2>3. /\ \A k \in DOMAIN more : Carries(S, w, s, more[k])
        /\ Keeps(w.handles, handles') /\ Keeps(w.extern, extern') /\ Agree(w.mem, m1, "memory", next)
    BY <1>4, <1>6, <2>1, <2>2, FollowCarried
  <2>4. m1 = Put(mem, at, bytes) /\ Claimed(q, more, "memory", at, Len(bytes))
    BY <1>2, <1>5, <2>1
  <2>5. Lie(w.mem, at, bytes)
    BY <1>4, <2>2, <2>3, <2>4, PutStays
  <2> QED
    BY <2>1, <2>3, <2>5
<1>7. Agree(stack', stack, "stack", todo)
  BY DEF Agree
<1>8. \A a \in wrote : a \in new \/ <<"memory", a>> \in Cells(Head(todo))
  BY <1>1
<1> QED
  BY <1>2, <1>3, <1>4, <1>6, <1>7, <1>8, WriteStep

\* A step that writes nothing yet.
LEMMA SplitStep ==
  ASSUME TypeOK, BlocksOK, Arriving, todo # <<>>, phase \in {"lowering", "writing"},
         NEW more, NEW new, Follow(more, new), todo' = more \o Tail(todo),
         free' \in Nat, free' >= free, \A a \in new : a \in Nat /\ free <= a /\ a < free',
         Given' = Given \union new,
         UNCHANGED <<mem, touched, stack, handles, extern, Outer>>,
         \A w, s : (\A k \in DOMAIN more : Carries(Reader, w, s, more[k]))
                   => Carries(Reader, w, s, Head(todo))
  PROVE  TypeOK' /\ BlocksOK' /\ Arriving'
<1>1. PICK wrote : wrote = {}
  OBVIOUS
<1>2. /\ mem' = mem /\ stack' = stack /\ handles' = handles /\ extern' = extern
      /\ touched' = touched \union wrote /\ UNCHANGED Outer
  BY <1>1
<1>3. /\ handles' \in Seq(Nat) /\ extern' \in Seq(Nat)
      /\ Keeps(handles', handles) /\ Keeps(extern', extern) /\ Agree(stack', stack, "stack", todo)
  BY <1>2 DEF TypeOK, Keeps, Agree
<1>4. /\ more \in Seq(Items) /\ Apart(more)
      /\ \A k \in DOMAIN more :
            /\ Cells(more[k]) \subseteq Cells(Head(todo)) \union {<<"memory", a>> : a \in new}
            /\ more[k].in = "stack" => more[k].t = HeaderKind
  BY DEF Follow
<1>5. /\ \A a \in wrote : a \in new \/ <<"memory", a>> \in Cells(Head(todo))
      /\ DOMAIN mem' \subseteq DOMAIN mem \union wrote
      /\ \A a \in DOMAIN mem : a \notin wrote => a \in DOMAIN mem' /\ mem'[a] = mem[a]
  BY <1>1, <1>2
<1>6. ASSUME NEW w, NEW s, Completes(Reader, w, s, mem', stack', handles', extern', todo')
      PROVE  Carries(Reader, w, s, Head(todo))
  <2>1. PICK q, next, S : q = todo /\ next = todo' /\ S = Reader
    OBVIOUS
  <2>2. q \in Seq(Items) /\ q # <<>> /\ next = more \o Tail(q)
    BY <2>1 DEF TypeOK
  <2>3. \A k \in DOMAIN more : Carries(S, w, s, more[k])
    BY <1>4, <1>6, <2>1, <2>2, FollowCarried
  <2> QED
    BY <2>1, <2>3
<1> QED
  BY <1>2, <1>3, <1>4, <1>5, <1>6, WriteStep

\* The item a step works on.
LEMMA FirstIs ==
  ASSUME TypeOK, NEW kinds, Writing(kinds)
  PROVE  /\ phase \in {"lowering", "writing"} /\ todo # <<>> /\ Head(todo) \in Items
         /\ Head(todo).t.k \in kinds /\ Head(todo).at \in Nat /\ Head(todo).in \in {"memory", "stack"}
         /\ Head(todo).t = HeaderKind \/ Head(todo).t \in Codecs
         /\ Head(todo).t.k = "header" <=> Head(todo).t = HeaderKind
         /\ Head(todo).t = HeaderKind => Head(todo).v \in Nat \X Nat
         /\ Head(todo).t \in Codecs => Head(todo).v \in Shapes[Head(todo).t]
         /\ Head(todo).in = "stack" => Head(todo).t = HeaderKind \/ Head(todo).t.k \in Lowered
         /\ Reader \in Sides /\ Side \in Sides
<1>1. phase \in {"lowering", "writing"} /\ todo # <<>> /\ Head(todo).t.k \in kinds
  BY DEF Writing
<1>2. PICK i \in Items : i = Head(todo)
  BY <1>1, FirstItem
<1>3. /\ i.at \in Nat /\ i.in \in {"memory", "stack"}
      /\ i.t = HeaderKind \/ i.t \in Codecs
      /\ i.t.k = "header" <=> i.t = HeaderKind
      /\ i.t = HeaderKind => i.v \in Nat \X Nat
      /\ i.t \in Codecs => i.v \in Shapes[i.t]
      /\ i.in = "stack" => i.t = HeaderKind \/ i.t.k \in Lowered
  BY ItemIs
<1>4. Reader \in Sides /\ Side \in Sides
  BY DEF Reader, Side, Sides
<1> QED
  BY <1>1, <1>2, <1>3, <1>4

\* Nothing follows.
LEMMA NothingFollows ==
  ASSUME NEW new
  PROVE  Follow(<<>>, new)
<1>1. PICK none : none = <<>>
  OBVIOUS
<1>2. none \in Seq(Items) /\ DOMAIN none = {}
  BY <1>1
<1> QED
  BY <1>1, <1>2 DEF Follow, Apart

\* Nothing was allocated.
LEMMA NothingNew ==
  ASSUME TypeOK, UNCHANGED <<free, blocks>>, NEW new, new = {}
  PROVE  /\ free' \in Nat /\ free' >= free /\ \A a \in new : a \in Nat /\ free <= a /\ a < free'
         /\ Given' = Given \union new
  BY DEF TypeOK, Given

\* The handles and resources are as they were.
LEMMA TablesStay ==
  ASSUME TypeOK, UNCHANGED <<handles, extern>>
  PROVE  /\ handles' \in Seq(Nat) /\ extern' \in Seq(Nat)
         /\ Keeps(handles', handles) /\ Keeps(extern', extern)
  BY DEF TypeOK, Keeps

\* The bytes of a number are the number.
LEMMA NumberLies ==
  ASSUME NEW m, NEW at \in Nat, NEW v, NEW n \in Nat, NEW bytes, bytes = IntBytes(v, n),
         Lie(m, at, bytes)
  PROVE  Lies(m, at, n, v)
<1>1. Len(bytes) = n /\ \A k \in 1..n : bytes[k] = <<v, k>>
  BY IntBytesAre
<1>2. \A a \in at..at + n - 1 : a \in DOMAIN m /\ m[a] = bytes[a - at + 1]
  BY <1>1 DEF Lie
<1>3. \A a \in at..at + n - 1 : a - at + 1 \in 1..n
  OBVIOUS
<1>4. \A a \in at..at + n - 1 : m[a] = <<v, a - at + 1>>
  BY <1>1, <1>2, <1>3
<1> QED
  BY <1>2, <1>4 DEF Lies

\* A number.
LEMMA WriteNumberStep ==
  ASSUME TypeOK, BlocksOK, Arriving, WriteNumber
  PROVE  TypeOK' /\ BlocksOK' /\ Arriving'
<1>1. PICK i, n, bytes, none, new :
         i = Head(todo) /\ n = i.t.size /\ bytes = IntBytes(i.v, n) /\ none = <<>> /\ new = {}
  OBVIOUS
<1>2. /\ Writing({"byte", "word"}) /\ i.in = "memory" /\ Write(i.at, bytes, none)
      /\ UNCHANGED <<free, blocks>> /\ stack' = stack /\ UNCHANGED <<handles, extern>>
      /\ UNCHANGED Outer
  BY <1>1 DEF WriteNumber
<1>3. /\ phase \in {"lowering", "writing"} /\ todo # <<>> /\ i.t \in Codecs /\ i.at \in Nat
      /\ i.t.k \in {"byte", "word"} /\ i.t # HeaderKind
  BY <1>1, <1>2, FirstIs
<1>4. n \in {1, 4} /\ n \in Nat /\ Room(i) = n
  BY <1>1, <1>2, <1>3, CodecsSound DEF Sound, Room
<1>5. bytes \in Seq({i.v} \X Nat) /\ Len(bytes) = n
  BY <1>1, <1>4, IntBytesAre
<1>6. Follow(none, new) /\ DOMAIN none = {}
  BY <1>1, NothingFollows
<1>7. \A a \in i.at..i.at + Len(bytes) - 1 : <<"memory", a>> \in Cells(i)
  BY <1>2, <1>4, <1>5 DEF Cells
<1>8. ASSUME NEW w, NEW s, Lie(w.mem, i.at, bytes)
      PROVE  Carries(Reader, w, s, i)
  <2>1. Lies(w.mem, i.at, i.t.size, i.v)
    BY <1>1, <1>3, <1>4, <1>8, NumberLies
  <2>2. NumberAt(w, i.t, i.at, i.v)
    BY <2>1, <1>3 DEF NumberAt
  <2>3. Finds(Reader, w)[i.t][i.at] = i.v
    BY ONLY <2>2, NumberFound
  <2> QED
    BY <2>3, <1>2, <1>3 DEF Carries
<1>9. /\ free' \in Nat /\ free' >= free /\ \A a \in new : a \in Nat /\ free <= a /\ a < free'
      /\ Given' = Given \union new
  BY <1>1, <1>2, NothingNew
<1>10. /\ handles' \in Seq(Nat) /\ extern' \in Seq(Nat)
       /\ Keeps(handles', handles) /\ Keeps(extern', extern)
  BY <1>2, TablesStay
<1>11. PICK at \in Nat : at = i.at
  BY <1>3
<1>12. /\ Write(at, bytes, none)
       /\ \A a \in at..at + Len(bytes) - 1 :
            /\ a \in new \/ <<"memory", a>> \in Cells(Head(todo))
            /\ \A k \in DOMAIN none : <<"memory", a>> \notin Cells(none[k])
       /\ \A w, s : /\ Lie(w.mem, at, bytes) /\ \A k \in DOMAIN none : Carries(Reader, w, s, none[k])
                    /\ Keeps(w.handles, handles') /\ Keeps(w.extern, extern')
                    => Carries(Reader, w, s, Head(todo))
  BY <1>1, <1>2, <1>6, <1>7, <1>8, <1>11
<1> QED
  BY ONLY <1>2, <1>3, <1>5, <1>6, <1>9, <1>10, <1>11, <1>12, TypeOK, BlocksOK, Arriving, MemoryStep

\* Two sequences, one after the other.
LEMMA Joined ==
  ASSUME NEW U, NEW b \in Seq(U), NEW c \in Seq(U)
  PROVE  /\ b \o c \in Seq(U) /\ Len(b \o c) = Len(b) + Len(c)
         /\ \A k \in 1..Len(b) : (b \o c)[k] = b[k]
         /\ \A k \in 1..Len(c) : (b \o c)[Len(b) + k] = c[k]
<1>1. PICK d \in Seq(U) : d = b \o c
  <2>1. b \o c \in Seq(U)
    OBVIOUS
  <2> QED
    BY <2>1
<1>2. Len(d) = Len(b) + Len(c)
  BY <1>1
<1>3. \A k \in 1..Len(b) : d[k] = b[k]
  BY <1>1
<1>4. \A k \in 1..Len(c) : d[Len(b) + k] = c[k]
  BY <1>1
<1> QED
  BY <1>1, <1>2, <1>3, <1>4

\* The two words of a header.
LEMMA HeaderLies ==
  ASSUME NEW m, NEW at \in Nat, NEW x, NEW y, NEW bytes, bytes = IntBytes(x, 4) \o IntBytes(y, 4),
         Lie(m, at, bytes)
  PROVE  Stored(m, at, 4) = x /\ Stored(m, at + 4, 4) = y
<1>1. PICK b, c : b = IntBytes(x, 4) /\ c = IntBytes(y, 4)
  OBVIOUS
<1>2. /\ b \in Seq({x} \X Nat) /\ Len(b) = 4 /\ \A k \in 1..4 : b[k] = <<x, k>>
      /\ c \in Seq({y} \X Nat) /\ Len(c) = 4 /\ \A k \in 1..4 : c[k] = <<y, k>>
  BY <1>1, IntBytesAre
<1>3. PICK U : b \in Seq(U) /\ c \in Seq(U)
  <2>1. PICK U : U = ({x} \X Nat) \union ({y} \X Nat)
    OBVIOUS
  <2>2. b \in Seq(U) /\ c \in Seq(U)
    BY <1>2, <2>1
  <2> QED
    BY <2>2
<1>4. /\ bytes \in Seq(U) /\ Len(bytes) = 8 /\ \A k \in 1..4 : bytes[k] = b[k]
      /\ \A k \in 5..8 : bytes[k] = c[k - 4]
  <2>1. PICK lb, lc : lb = Len(b) /\ lc = Len(c)
    OBVIOUS
  <2>2. /\ bytes \in Seq(U) /\ Len(bytes) = lb + lc
        /\ \A k \in 1..lb : bytes[k] = b[k]
        /\ \A k \in 1..lc : bytes[lb + k] = c[k]
    BY <1>1, <1>3, <2>1, Joined
  <2>3. lb = 4 /\ lc = 4
    BY <1>2, <2>1
  <2>4. \A k \in 5..8 : k - 4 \in 1..4 /\ 4 + (k - 4) = k
    OBVIOUS
  <2>5. \A k \in 5..8 : bytes[4 + (k - 4)] = c[k - 4]
    BY ONLY <2>2, <2>3, <2>4
  <2> QED
    BY ONLY <2>2, <2>3, <2>4, <2>5
<1>5. \A a \in at..at + 8 - 1 : a \in DOMAIN m /\ m[a] = bytes[a - at + 1]
  BY <1>4 DEF Lie
<1>6. Lies(m, at, 4, x)
  <2>1. ASSUME NEW a \in at..at + 4 - 1
        PROVE  a \in DOMAIN m /\ m[a] = <<x, a - at + 1>>
    <3>1. PICK k \in 1..4 : k = a - at + 1
      OBVIOUS
    <3>2. a \in at..at + 8 - 1
      OBVIOUS
    <3>3. bytes[k] = <<x, k>>
      BY <1>2, <1>4
    <3> QED
      BY <1>5, <3>1, <3>2, <3>3
  <2> QED
    BY <2>1 DEF Lies
<1>7. PICK at4 \in Nat : at4 = at + 4
  OBVIOUS
<1>8. Lies(m, at4, 4, y)
  <2>1. ASSUME NEW a \in at4..at4 + 4 - 1
        PROVE  a \in DOMAIN m /\ m[a] = <<y, a - at4 + 1>>
    <3>1. PICK k \in 5..8 : k = a - at + 1
      BY <1>7
    <3>2. a \in at..at + 8 - 1 /\ k - 4 \in 1..4 /\ k - 4 = a - at4 + 1
      BY <1>7, <3>1
    <3>3. bytes[k] = <<y, k - 4>>
      BY <1>2, <1>4, <3>2
    <3> QED
      BY <1>5, <3>1, <3>2, <3>3
  <2> QED
    BY <2>1 DEF Lies
<1>9. Stored(m, at, 4) = x
  BY <1>6, StoredIs
<1>10. Stored(m, at4, 4) = y
  BY <1>8, StoredIs
<1> QED
  BY <1>7, <1>9, <1>10

\* A header.
LEMMA WriteHeaderStep ==
  ASSUME TypeOK, BlocksOK, Arriving, WriteHeader
  PROVE  TypeOK' /\ BlocksOK' /\ Arriving'
<1>1. PICK i, none, new : i = Head(todo) /\ none = <<>> /\ new = {}
  OBVIOUS
<1>2. /\ Writing({"header"}) /\ i.in = "memory"
      /\ Write(i.at, IntBytes(i.v[1], 4) \o IntBytes(i.v[2], 4), none)
      /\ UNCHANGED <<free, blocks>> /\ stack' = stack /\ UNCHANGED <<handles, extern>>
      /\ UNCHANGED Outer
  BY <1>1 DEF WriteHeader
<1>3. /\ phase \in {"lowering", "writing"} /\ todo # <<>> /\ i.at \in Nat /\ i.t = HeaderKind
  BY <1>1, <1>2, FirstIs
<1>4. PICK bytes : bytes = IntBytes(i.v[1], 4) \o IntBytes(i.v[2], 4)
  OBVIOUS
<1>5. PICK U : bytes \in Seq(U) /\ Len(bytes) = 8
  <2>1. PICK x, y : x = i.v[1] /\ y = i.v[2]
    OBVIOUS
  <2>2. PICK b, c : b = IntBytes(x, 4) /\ c = IntBytes(y, 4)
    OBVIOUS
  <2>3. b \in Seq({x} \X Nat) /\ Len(b) = 4 /\ c \in Seq({y} \X Nat) /\ Len(c) = 4
    BY <2>2, IntBytesAre
  <2>4. PICK U : U = ({x} \X Nat) \union ({y} \X Nat)
    OBVIOUS
  <2>5. b \in Seq(U) /\ c \in Seq(U)
    BY <2>3, <2>4
  <2>6. b \o c \in Seq(U) /\ Len(b \o c) = 8
    <3>1. b \o c \in Seq(U) /\ Len(b \o c) = Len(b) + Len(c)
      BY <2>5, Joined
    <3> QED
      BY <2>3, <3>1
  <2> QED
    BY <1>4, <2>1, <2>2, <2>6
<1>6. Follow(none, new) /\ DOMAIN none = {}
  BY <1>1, NothingFollows
<1>7. \A a \in i.at..i.at + Len(bytes) - 1 : <<"memory", a>> \in Cells(i)
  BY <1>2, <1>3, <1>5 DEF Cells, Room
<1>8. ASSUME NEW w, NEW s, Lie(w.mem, i.at, bytes)
      PROVE  Carries(Reader, w, s, i)
  <2>1. PICK m, x, y : m = w.mem /\ x = i.v[1] /\ y = i.v[2]
    OBVIOUS
  <2>2. PICK at \in Nat : at = i.at
    BY <1>3
  <2>3. Lie(m, at, bytes) /\ bytes = IntBytes(x, 4) \o IntBytes(y, 4)
    BY <1>4, <1>8, <2>1, <2>2
  <2>4. Stored(m, at, 4) = x /\ Stored(m, at + 4, 4) = y
    BY ONLY <2>3, HeaderLies, at \in Nat
  <2> QED
    BY <2>1, <2>2, <2>4, <1>2, <1>3 DEF Carries, Word
<1>9. /\ free' \in Nat /\ free' >= free /\ \A a \in new : a \in Nat /\ free <= a /\ a < free'
      /\ Given' = Given \union new
  BY <1>1, <1>2, NothingNew
<1>10. /\ handles' \in Seq(Nat) /\ extern' \in Seq(Nat)
       /\ Keeps(handles', handles) /\ Keeps(extern', extern)
  BY <1>2, TablesStay
<1>11. PICK at \in Nat : at = i.at
  BY <1>3
<1>12. /\ Write(at, bytes, none)
       /\ \A a \in at..at + Len(bytes) - 1 :
            /\ a \in new \/ <<"memory", a>> \in Cells(Head(todo))
            /\ \A k \in DOMAIN none : <<"memory", a>> \notin Cells(none[k])
       /\ \A w, s : /\ Lie(w.mem, at, bytes) /\ \A k \in DOMAIN none : Carries(Reader, w, s, none[k])
                    /\ Keeps(w.handles, handles') /\ Keeps(w.extern, extern')
                    => Carries(Reader, w, s, Head(todo))
  BY <1>1, <1>2, <1>4, <1>6, <1>7, <1>8, <1>11
<1> QED
  BY ONLY <1>2, <1>3, <1>5, <1>6, <1>9, <1>10, <1>11, <1>12, TypeOK, BlocksOK, Arriving, MemoryStep

\* An owned handle, and the resource registered for it.
LEMMA BindHandleStep ==
  ASSUME TypeOK, BlocksOK, Arriving, BindHandle
  PROVE  TypeOK' /\ BlocksOK' /\ Arriving'
<1>1. PICK i, h, bytes, none, new :
         i = Head(todo) /\ h = HandleID /\ bytes = IntBytes(h, 4) /\ none = <<>> /\ new = {}
  OBVIOUS
<1>2. /\ Writing({"own"}) /\ Write(i.at, bytes, none)
      /\ extern' = Append(extern, i.v) /\ handles' = Append(handles, Len(extern) + 1)
      /\ UNCHANGED <<free, blocks>> /\ stack' = stack /\ UNCHANGED Outer
  BY <1>1 DEF BindHandle
<1>3. /\ phase \in {"lowering", "writing"} /\ todo # <<>> /\ i.t \in Codecs /\ i.at \in Nat
      /\ i.t.k = "own" /\ i.t # HeaderKind /\ i.in = "memory" /\ i.v \in Shapes[i.t]
  <2>1. "own" \notin Lowered /\ "own" # "header"
    BY DEF Lowered
  <2> QED
    BY <1>1, <1>2, <2>1, FirstIs
<1>4. Room(i) = 4 /\ i.v \in Nat
  BY <1>3, ShapesAre, CodecsSound DEF Sound, Room
<1>5. bytes \in Seq({h} \X Nat) /\ Len(bytes) = 4
  BY <1>1, IntBytesAre
<1>6. Follow(none, new) /\ DOMAIN none = {}
  BY <1>1, NothingFollows
<1>7. \A a \in i.at..i.at + Len(bytes) - 1 : <<"memory", a>> \in Cells(i)
  BY <1>3, <1>4, <1>5 DEF Cells
<1>8. PICK hs \in Seq(Nat), es \in Seq(Nat) : hs = handles /\ es = extern
  BY DEF TypeOK
<1>9. PICK r \in Nat : r = Len(es) + 1
  BY <1>8
<1>10. PICK v \in Nat : v = i.v
  BY <1>4
<1>11. /\ Append(hs, r) \in Seq(Nat) /\ Append(es, v) \in Seq(Nat)
       /\ h = Len(hs) + 1 /\ h \in DOMAIN Append(hs, r) /\ Append(hs, r)[h] = r
       /\ r \in DOMAIN Append(es, v) /\ Append(es, v)[r] = v
       /\ \A x \in DOMAIN hs : x \in DOMAIN Append(hs, r) /\ Append(hs, r)[x] = hs[x]
       /\ \A x \in DOMAIN es : x \in DOMAIN Append(es, v) /\ Append(es, v)[x] = es[x]
  BY <1>1, <1>8, <1>9, <1>10 DEF HandleID
<1>12. handles' = Append(hs, r) /\ extern' = Append(es, v)
  BY <1>2, <1>8, <1>9, <1>10
<1>13. /\ handles' \in Seq(Nat) /\ extern' \in Seq(Nat)
       /\ Keeps(handles', handles) /\ Keeps(extern', extern)
       /\ h \in DOMAIN handles' /\ handles'[h] \in DOMAIN extern' /\ extern'[handles'[h]] = i.v
  BY <1>8, <1>10, <1>11, <1>12 DEF Keeps
<1>14. ASSUME NEW w, NEW s, Lie(w.mem, i.at, bytes),
              Keeps(w.handles, handles'), Keeps(w.extern, extern')
       PROVE  Carries(Reader, w, s, i)
  <2>1. Lies(w.mem, i.at, 4, h)
    BY <1>1, <1>3, <1>14, NumberLies
  <2>2. /\ h \in DOMAIN w.handles /\ w.handles[h] = handles'[h]
        /\ handles'[h] \in DOMAIN w.extern /\ w.extern[handles'[h]] = extern'[handles'[h]]
    BY <1>13, <1>14 DEF Keeps
  <2>3. h \in DOMAIN w.handles /\ w.handles[h] \in DOMAIN w.extern /\ w.extern[w.handles[h]] = i.v
    BY <1>13, <2>2
  <2>4. OwnAt(w, i.t, i.at, i.v)
    BY <1>3, <2>1, <2>3 DEF OwnAt
  <2>5. Finds(Reader, w)[i.t][i.at] = i.v
    BY ONLY <2>4, OwnFound
  <2> QED
    BY <2>5, <1>3 DEF Carries
<1>15. /\ free' \in Nat /\ free' >= free /\ \A a \in new : a \in Nat /\ free <= a /\ a < free'
       /\ Given' = Given \union new
  BY <1>1, <1>2, NothingNew
<1>16. PICK at \in Nat : at = i.at
  BY <1>3
<1>17. /\ Write(at, bytes, none)
       /\ \A a \in at..at + Len(bytes) - 1 :
            /\ a \in new \/ <<"memory", a>> \in Cells(Head(todo))
            /\ \A k \in DOMAIN none : <<"memory", a>> \notin Cells(none[k])
       /\ \A w, s : /\ Lie(w.mem, at, bytes) /\ \A k \in DOMAIN none : Carries(Reader, w, s, none[k])
                    /\ Keeps(w.handles, handles') /\ Keeps(w.extern, extern')
                    => Carries(Reader, w, s, Head(todo))
  BY <1>1, <1>2, <1>6, <1>7, <1>14, <1>16
<1> QED
  BY ONLY <1>2, <1>3, <1>5, <1>6, <1>13, <1>15, <1>16, <1>17, TypeOK, BlocksOK, Arriving, MemoryStep

\* A sequence of one item.
LEMMA OneFollows ==
  ASSUME NEW j \in Items, NEW new,
         Cells(j) \subseteq Cells(Head(todo)) \union {<<"memory", a>> : a \in new},
         j.in = "stack" => j.t = HeaderKind
  PROVE  Follow(<<j>>, new) /\ DOMAIN <<j>> = {1} /\ <<j>>[1] = j
<1>1. PICK one : one = <<j>>
  OBVIOUS
<1>2. one \in Seq(Items) /\ DOMAIN one = {1} /\ one[1] = j
  BY <1>1
<1>3. Apart(one)
  BY <1>2 DEF Apart
<1> QED
  BY <1>1, <1>2, <1>3 DEF Follow

\* A case without a payload has nothing there.
LEMMA NothingFound ==
  ASSUME NEW S, NEW w, NEW at \in Nat
  PROVE  Finds(S, w)[NoPayload][at] = Nothing
<1>1. NoPayload.k = "none" /\ NoPayload \in Codecs
  BY PlainLaid DEF NoPayload, Plain, Laid
<1>2. Found(S, Finds(S, w), NoPayload, w, at) = Nothing
  BY <1>1 DEF Found
<1> QED
  BY <1>1, <1>2, FindsAt

\* A case: its discriminant, and then the payload.
LEMMA WriteCaseStep ==
  ASSUME TypeOK, BlocksOK, Arriving, WriteCase
  PROVE  TypeOK' /\ BlocksOK' /\ Arriving'
<1>1. PICK i, new : i = Head(todo) /\ new = {}
  OBVIOUS
<1>2. /\ Writing({"case"})
      /\ UNCHANGED <<free, blocks>> /\ stack' = stack /\ UNCHANGED <<handles, extern>>
      /\ UNCHANGED Outer
  BY <1>1 DEF WriteCase
<1>3. /\ phase \in {"lowering", "writing"} /\ todo # <<>> /\ i.t \in Codecs /\ i.at \in Nat
      /\ i.t.k = "case" /\ i.t # HeaderKind /\ i.in = "memory" /\ i.v \in Shapes[i.t]
      /\ Reader \in Sides /\ Side \in Sides
  <2>1. "case" \notin Lowered /\ "case" # "header"
    BY DEF Lowered
  <2> QED
    BY <1>1, <1>2, <2>1, FirstIs
<1>4. /\ i.t.payloads \in Seq(Codecs) /\ i.t.guest.at = 4 /\ i.t.size \in Nat
      /\ \A d \in DOMAIN i.t.payloads : 4 + i.t.payloads[d].size <= i.t.size
      /\ i.t[Side] = i.t.guest
  BY <1>3, CodecsSound, SameLayout DEF Sound, SoundCase
<1>5. PICK d \in DOMAIN i.t.payloads : \E x \in Shapes[i.t.payloads[d]] : i.v = <<d - 1, x>>
  BY <1>3, ShapesAre
<1>6. PICK x \in Shapes[i.t.payloads[d]] : i.v = <<d - 1, x>>
  BY <1>5
<1>7. PICK p \in Codecs : p = i.t.payloads[d]
  BY <1>4
<1>8. p.size \in Nat /\ 4 + p.size <= i.t.size /\ d - 1 + 1 = d /\ x \in Shapes[p]
  BY <1>4, <1>6, <1>7, CodecsSound DEF Sound
<1>9. PICK b : b = d - 1 /\ i.v = <<b, x>> /\ i.v[1] = b /\ i.v[2] = x /\ b + 1 = d
  BY <1>6, <1>8
<1>10. PICK more, bytes : /\ more = IF p = NoPayload THEN <<>> ELSE <<Item(p, "memory", i.at + 4, x)>>
                          /\ bytes = IntBytes(b, 1)
  OBVIOUS
<1>11. Write(i.at, bytes, more)
  <2>1. LET t == i.t.payloads[i.v[1] + 1] IN
        Write(i.at, IntBytes(i.v[1], 1),
              IF t = NoPayload THEN <<>> ELSE <<Item(t, "memory", i.at + i.t[Side].at, i.v[2])>>)
    BY <1>1 DEF WriteCase
  <2>2. i.t.payloads[i.v[1] + 1] = p /\ i.t[Side].at = 4
    BY <1>4, <1>7, <1>9
  <2> QED
    BY <2>1, <2>2, <1>9, <1>10
<1>12. bytes \in Seq({b} \X Nat) /\ Len(bytes) = 1 /\ bytes[1] = <<b, 1>>
  <2>1. bytes = IntBytes(b, 1)
    BY <1>10
  <2>2. IntBytes(b, 1) \in Seq({b} \X Nat) /\ Len(IntBytes(b, 1)) = 1
    BY IntBytesAre
  <2>3. \A k \in 1..1 : IntBytes(b, 1)[k] = <<b, k>>
    BY IntBytesAre
  <2>4. 1 \in 1..1
    OBVIOUS
  <2>5. IntBytes(b, 1)[1] = <<b, 1>>
    BY ONLY <2>3, <2>4
  <2> QED
    BY ONLY <2>1, <2>2, <2>5
<1>13. Room(i) = i.t.size /\ i.t.size >= 4
  BY <1>3, <1>4, <1>8 DEF Room
<1>14. \A a \in i.at..i.at + Len(bytes) - 1 : a = i.at /\ <<"memory", a>> \in Cells(i)
  <2>1. PICK at \in Nat, r \in Nat : at = i.at /\ r = Room(i) /\ r >= 4
    BY <1>3, <1>4, <1>13
  <2>2. \A a \in at..at + Len(bytes) - 1 : a = at
    BY <1>12, <2>1
  <2>3. at \in at..at + r - 1
    BY <2>1
  <2>4. <<"memory", at>> \in Cells(i)
    BY <1>3, <2>1, <2>3 DEF Cells
  <2> QED
    BY <2>1, <2>2, <2>4
<1>15. /\ Follow(more, new)
       /\ \A k \in DOMAIN more : <<"memory", i.at>> \notin Cells(more[k])
       /\ \A w, s : (\A k \in DOMAIN more : Carries(Reader, w, s, more[k]))
                       => Finds(Reader, w)[p][i.at + 4] = x
  <2>1. CASE p = NoPayload
    <3>1. more = <<>>
      BY <1>10, <2>1
    <3>2. Follow(more, new) /\ DOMAIN more = {}
      BY <3>1, NothingFollows
    <3>3. x = Nothing
      <4>1. p.k = "none"
        BY <2>1 DEF NoPayload, Plain
      <4> QED
        BY <4>1, <1>8, ShapesAre
    <3>4. i.at + 4 \in Nat
      BY <1>3
    <3>5. \A w : Finds(Reader, w)[p][i.at + 4] = x
      BY <2>1, <3>3, <3>4, NothingFound
    <3> QED
      BY <3>2, <3>5
  <2>2. CASE p # NoPayload
    <3>1. PICK at \in Nat : at = i.at + 4
      BY <1>3
    <3>2. PICK j : j = Item(p, "memory", at, x)
      OBVIOUS
    <3>3. j.t = p /\ j.in = "memory" /\ j.at = at /\ j.v = x
      BY <3>2 DEF Item
    <3>4. j \in Items
      BY <1>8, <3>2, ItemFits
    <3>5. p # HeaderKind
      BY ItemIs, <3>3, <3>4
    <3>6. Cells(j) \subseteq Cells(i)
      <4>1. Room(j) = p.size
        BY <3>3, <3>5 DEF Room
      <4>2. PICK r \in Nat, l \in Nat, from \in Nat :
               r = Room(i) /\ l = p.size /\ from = i.at /\ 4 + l <= r
        BY <1>3, <1>4, <1>8, <1>13
      <4>3. at..at + l - 1 \subseteq from..from + r - 1
        BY <3>1, <4>2
      <4> QED
        BY <1>3, <3>3, <4>1, <4>2, <4>3 DEF Cells
    <3>7. <<"memory", i.at>> \notin Cells(j)
      BY <1>3, <1>8, <3>1, <3>3 DEF Cells
    <3>8. more = <<j>>
      BY <1>10, <2>2, <3>1, <3>2
    <3>9. Follow(more, new) /\ DOMAIN more = {1} /\ more[1] = j
      BY <1>1, <3>3, <3>4, <3>6, <3>8, OneFollows
    <3>10. \A w, s : Carries(Reader, w, s, j) => Finds(Reader, w)[p][at] = x
      BY <3>3, <3>5 DEF Carries
    <3> QED
      BY <3>1, <3>7, <3>9, <3>10
  <2> QED
    BY <2>1, <2>2
<1>16. ASSUME NEW w, NEW s, Lie(w.mem, i.at, bytes),
              \A k \in DOMAIN more : Carries(Reader, w, s, more[k])
       PROVE  Carries(Reader, w, s, i)
  <2>1. i.at \in DOMAIN w.mem /\ w.mem[i.at] = <<b, 1>>
    <3>1. i.at \in i.at..i.at + Len(bytes) - 1 /\ i.at - i.at + 1 = 1
      BY <1>3, <1>12
    <3>2. i.at \in DOMAIN w.mem /\ w.mem[i.at] = bytes[i.at - i.at + 1]
      BY <1>16, <3>1 DEF Lie
    <3> QED
      BY <3>1, <3>2, <1>12
  <2>2. Finds(Reader, w)[p][i.at + 4] = x
    BY <1>15, <1>16
  <2>3. i.v = <<d - 1, Finds(Reader, w)[i.t.payloads[d]][i.at + i.t.guest.at]>>
    BY <1>4, <1>6, <1>7, <2>2
  <2>4. CaseAt(Reader, w, i.t, i.at, i.v)
    BY <1>3, <1>9, <2>1, <2>3 DEF CaseAt
  <2>5. Finds(Reader, w)[i.t][i.at] = i.v
    BY ONLY <2>4, CaseFound
  <2> QED
    BY <2>5, <1>3 DEF Carries
<1>17. /\ free' \in Nat /\ free' >= free /\ \A a \in new : a \in Nat /\ free <= a /\ a < free'
       /\ Given' = Given \union new
  BY <1>1, <1>2, NothingNew
<1>18. /\ handles' \in Seq(Nat) /\ extern' \in Seq(Nat)
       /\ Keeps(handles', handles) /\ Keeps(extern', extern)
  BY <1>2, TablesStay
<1>19. PICK at \in Nat : at = i.at
  BY <1>3
<1>20. /\ Write(at, bytes, more)
       /\ \A a \in at..at + Len(bytes) - 1 :
            /\ a \in new \/ <<"memory", a>> \in Cells(Head(todo))
            /\ \A k \in DOMAIN more : <<"memory", a>> \notin Cells(more[k])
       /\ \A w, s : /\ Lie(w.mem, at, bytes) /\ \A k \in DOMAIN more : Carries(Reader, w, s, more[k])
                    /\ Keeps(w.handles, handles') /\ Keeps(w.extern, extern')
                    => Carries(Reader, w, s, Head(todo))
  BY <1>1, <1>11, <1>14, <1>15, <1>16, <1>19
<1>21. Follow(more, new)
  BY <1>15
<1> QED
  BY ONLY <1>2, <1>3, <1>12, <1>17, <1>18, <1>19, <1>20, <1>21, TypeOK, BlocksOK, Arriving, MemoryStep

\* Part of an interval, and two parts that are apart.
LEMMA Within ==
  ASSUME NEW from \in Nat, NEW o \in Nat, NEW l \in Nat, NEW r \in Nat, o + l <= r
  PROVE  (from + o)..(from + o + l - 1) \subseteq from..(from + r - 1)
OBVIOUS

\* Two parts that are apart.
LEMMA Beside ==
  ASSUME NEW from \in Nat, NEW o \in Nat, NEW l \in Nat, NEW p \in Nat, NEW n \in Nat, o + l <= p
  PROVE  \A a \in (from + o)..(from + o + l - 1) : a \notin (from + p)..(from + p + n - 1)
OBVIOUS

\* The fields of a record, and where they lie.
FieldsOf(i) ==
  [f \in DOMAIN i.t.fields |-> Item(i.t.fields[f], "memory", i.at + i.t.guest.offsets[f], i.v[f])]

\* They lie inside the record, apart from each other.
LEMMA FieldsFollow ==
  ASSUME NEW i \in Items, i.t \in Codecs, i.t.k = "record", i.in = "memory", NEW more, more = FieldsOf(i)
  PROVE  /\ more \in Seq(Items) /\ DOMAIN more = DOMAIN i.t.fields /\ Apart(more)
         /\ \A f \in DOMAIN more :
              /\ Cells(more[f]) \subseteq Cells(i)
              /\ more[f].in = "memory" /\ more[f].t # HeaderKind /\ more[f].t = i.t.fields[f]
              /\ more[f].at = i.at + i.t.guest.offsets[f] /\ more[f].v = i.v[f]
<1>1. /\ i.at \in Nat /\ i.v \in Shapes[i.t] /\ i.t # HeaderKind
  BY ItemIs
<1>2. /\ i.t.size \in Nat /\ i.t.fields \in Seq(Codecs) /\ Len(i.t.fields) \in {2, 3}
      /\ i.t.guest.offsets \in [DOMAIN i.t.fields -> Nat]
      /\ \A f \in DOMAIN i.t.fields : i.t.guest.offsets[f] + i.t.fields[f].size <= i.t.size
      /\ \A f, g \in DOMAIN i.t.fields :
            f < g => i.t.guest.offsets[f] + i.t.fields[f].size <= i.t.guest.offsets[g]
  BY CodecsSound DEF Sound, SoundRecord
<1>0. PICK off : off = i.t.guest.offsets
  OBVIOUS
<1>3. PICK fields \in Seq(Codecs), r \in Nat, from \in Nat :
        fields = i.t.fields /\ off = i.t.guest.offsets /\ r = i.t.size /\ from = i.at
  BY <1>0, <1>1, <1>2
<1>4. /\ DOMAIN fields = 1..Len(fields)
      /\ \A f \in DOMAIN fields : /\ fields[f] \in Codecs /\ off[f] \in Nat /\ fields[f].size \in Nat
                                  /\ off[f] + fields[f].size <= r
      /\ \A f, g \in DOMAIN fields : f < g => off[f] + fields[f].size <= off[g]
  BY <1>2, <1>3, CodecsSound DEF Sound
<1>5. \A f \in DOMAIN fields : i.v[f] \in Shapes[fields[f]]
  BY <1>1, <1>3, ShapesAre
<1>6. more = [f \in DOMAIN fields |-> Item(fields[f], "memory", from + off[f], i.v[f])]
  BY <1>3 DEF FieldsOf
<1>7. ASSUME NEW f \in DOMAIN fields
      PROVE  /\ more[f] \in Items /\ more[f].in = "memory" /\ more[f].t # HeaderKind
             /\ more[f].t = fields[f] /\ more[f].at = from + off[f] /\ more[f].v = i.v[f]
             /\ Room(more[f]) = fields[f].size
  <2>0. PICK j, v : j = more[f] /\ v = i.v[f]
    OBVIOUS
  <2>1. PICK at \in Nat, t \in Codecs :
          j = more[f] /\ at = from + off[f] /\ t = fields[f] /\ v = i.v[f]
    BY <1>3, <1>4, <2>0
  <2>2. j = Item(t, "memory", at, v) /\ v \in Shapes[t]
    BY <1>5, <1>6, <2>1
  <2>3. j \in Items
    BY <2>2, ItemFits
  <2>4. j.in = "memory" /\ j.t = t /\ j.at = at /\ j.v = v
    BY <2>2 DEF Item
  <2>5. j.t # HeaderKind
    BY <2>3, <2>4, ItemIs
  <2>6. Room(j) = t.size
    BY <2>4, <2>5 DEF Room
  <2> QED
    BY <2>1, <2>3, <2>4, <2>5, <2>6
<1>8. \A f \in DOMAIN fields : Cells(more[f]) = {<<"memory", a>> : a \in from + off[f]..from + off[f] + fields[f].size - 1}
  BY <1>7 DEF Cells
<1>9. Room(i) = r
  BY <1>1, <1>3 DEF Room
<1>10. \A f \in DOMAIN fields : Cells(more[f]) \subseteq Cells(i)
  <2> TAKE f \in DOMAIN fields
  <2>1. PICK o \in Nat, l \in Nat : o = off[f] /\ l = fields[f].size /\ o + l <= r
    BY <1>4
  <2>2. (from + o)..(from + o + l - 1) \subseteq from..(from + r - 1)
    BY <2>1, Within, SMTT(30)
  <2>3. Cells(i) = {<<"memory", a>> : a \in from..from + r - 1}
    BY <1>3, <1>9 DEF Cells
  <2>4. Cells(more[f]) = {<<"memory", a>> : a \in (from + o)..(from + o + l - 1)}
    BY <1>8, <2>1
  <2> QED
    BY <2>2, <2>3, <2>4
<1>11. \A f, g \in DOMAIN fields : f < g => Cells(more[f]) \intersect Cells(more[g]) = {}
  <2> TAKE f, g \in DOMAIN fields
  <2> HAVE f < g
  <2>1. PICK o \in Nat, l \in Nat, p \in Nat, n \in Nat :
          o = off[f] /\ l = fields[f].size /\ p = off[g] /\ n = fields[g].size /\ o + l <= p
    BY <1>4
  <2>2. \A a \in (from + o)..(from + o + l - 1) : a \notin (from + p)..(from + p + n - 1)
    BY <2>1, Beside
  <2>3. /\ Cells(more[f]) = {<<"memory", a>> : a \in (from + o)..(from + o + l - 1)}
        /\ Cells(more[g]) = {<<"memory", a>> : a \in (from + p)..(from + p + n - 1)}
    BY <1>8, <2>1
  <2>4. ASSUME NEW c, c \in Cells(more[f]), c \in Cells(more[g])
        PROVE  FALSE
    <3>1. PICK a \in (from + o)..(from + o + l - 1) : c = <<"memory", a>>
      BY <2>3, <2>4
    <3>2. PICK b \in (from + p)..(from + p + n - 1) : c = <<"memory", b>>
      BY <2>3, <2>4
    <3>3. a = b
      BY ONLY <3>1, <3>2
    <3> QED
      BY ONLY <2>2, <3>3, <3>1, <3>2
  <2> QED
    BY <2>4
<1>12. DOMAIN more = DOMAIN fields
  BY <1>6
<1>13. Apart(more)
  <2> SUFFICES ASSUME NEW f \in DOMAIN more, NEW g \in DOMAIN more, f # g
               PROVE  Cells(more[f]) \intersect Cells(more[g]) = {}
    BY DEF Apart
  <2>1. f \in Nat /\ g \in Nat
    BY <1>4, <1>12
  <2>2. f < g \/ g < f
    BY <2>1
  <2> QED
    BY <2>2, <1>11, <1>12
<1>14. more \in Seq(Items)
  <2>1. more \in [1..Len(fields) -> Items]
    BY <1>4, <1>6, <1>7
  <2> QED
    BY <2>1
<1> QED
  BY <1>3, <1>7, <1>10, <1>12, <1>13, <1>14

\* A record: its fields.
LEMMA WriteRecordStep ==
  ASSUME TypeOK, BlocksOK, Arriving, WriteRecord
  PROVE  TypeOK' /\ BlocksOK' /\ Arriving'
<1>1. PICK i, new, more : i = Head(todo) /\ new = {} /\ more = FieldsOf(i)
  OBVIOUS
<1>2. /\ Writing({"record"})
      /\ UNCHANGED <<free, blocks>> /\ stack' = stack /\ UNCHANGED <<handles, extern>>
      /\ UNCHANGED Outer /\ mem' = mem /\ touched' = touched
  BY <1>1 DEF WriteRecord
<1>3. /\ phase \in {"lowering", "writing"} /\ todo # <<>> /\ i \in Items /\ i.t \in Codecs /\ i.at \in Nat
      /\ i.t.k = "record" /\ i.t # HeaderKind /\ i.in = "memory" /\ i.v \in Shapes[i.t]
      /\ Reader \in Sides /\ Side \in Sides
  <2>1. "record" \notin Lowered /\ "record" # "header"
    BY DEF Lowered
  <2> QED
    BY <1>1, <1>2, <2>1, FirstIs
<1>4. todo' = more \o Tail(todo)
  <2>1. i.t[Side] = i.t.guest
    BY <1>3, SameLayout
  <2> QED
    BY <1>1, <2>1 DEF WriteRecord, FieldsOf
<1>5. /\ more \in Seq(Items) /\ DOMAIN more = DOMAIN i.t.fields /\ Apart(more)
      /\ \A f \in DOMAIN more :
              /\ Cells(more[f]) \subseteq Cells(i)
              /\ more[f].in = "memory" /\ more[f].t # HeaderKind /\ more[f].t = i.t.fields[f]
              /\ more[f].at = i.at + i.t.guest.offsets[f] /\ more[f].v = i.v[f]
  BY <1>1, <1>3, FieldsFollow
<1>6. Follow(more, new)
  BY <1>1, <1>5 DEF Follow
<1>7. ASSUME NEW w, NEW s, \A k \in DOMAIN more : Carries(Reader, w, s, more[k])
      PROVE  Carries(Reader, w, s, i)
  <2>1. \A f \in DOMAIN more : Finds(Reader, w)[i.t.fields[f]][i.at + i.t.guest.offsets[f]] = i.v[f]
    BY <1>5, <1>7 DEF Carries
  <2>2. i.v = [f \in DOMAIN i.t.fields |-> i.v[f]]
    BY <1>3, ShapesAre
  <2>3. RecordAt(Reader, w, i.t, i.at, i.v)
    BY <1>3, <1>5, <2>1, <2>2 DEF RecordAt
  <2>4. Finds(Reader, w)[i.t][i.at] = i.v
    BY ONLY <2>3, RecordFound
  <2> QED
    BY <2>4, <1>3 DEF Carries
<1>8. /\ free' \in Nat /\ free' >= free /\ \A a \in new : a \in Nat /\ free <= a /\ a < free'
      /\ Given' = Given \union new
  BY <1>1, <1>2, NothingNew
<1>9. UNCHANGED <<mem, touched, stack, handles, extern, Outer>>
  BY <1>2
<1>10. \A w, s : (\A k \in DOMAIN more : Carries(Reader, w, s, more[k])) => Carries(Reader, w, s, Head(todo))
  BY <1>1, <1>7
<1> QED
  BY ONLY <1>3, <1>4, <1>6, <1>8, <1>9, <1>10, TypeOK, BlocksOK, Arriving, SplitStep

\* What the guest's allocator gives.
LEMMA ReallocIs ==
  ASSUME TypeOK, NEW n \in Nat, NEW align \in {1, 4}, Realloc(n, align),
         NEW at, at = AlignUp(free, align), NEW new, new = at..(at + n - 1)
  PROVE  /\ at \in Nat /\ at % align = 0 /\ at + n <= MemSize
         /\ free' \in Nat /\ free' >= free /\ \A a \in new : a \in Nat /\ free <= a /\ a < free'
         /\ Given' = Given \union new
<1>0. PICK old \in Nat : old = free
  BY DEF TypeOK
<1>1. at \in Nat /\ at >= old /\ at % align = 0
  BY <1>0, AlignUpIs
<1>2. /\ at + n <= MemSize /\ free' = at + n /\ blocks' = blocks \union {<<at, n>>}
  BY DEF Realloc
<1>3. PICK old2 : old2 = blocks
  OBVIOUS
<1>4. Given' = UNION {b[1]..b[1] + b[2] - 1 : b \in old2 \union {<<at, n>>}}
  BY <1>2, <1>3 DEF Given
<1>5. Given = UNION {b[1]..b[1] + b[2] - 1 : b \in old2}
  BY <1>3 DEF Given
<1>6. PICK b0 : b0 = <<at, n>>
  OBVIOUS
<1>7. b0[1] = at /\ b0[2] = n
  BY ONLY <1>6
<1>10. b0[1]..b0[1] + b0[2] - 1 = new
  BY ONLY <1>7, new = at..(at + n - 1)
<1>8. Given' = Given \union new
  BY <1>4, <1>5, <1>6, <1>10
<1>9. free' \in Nat /\ free' >= free /\ \A a \in new : a \in Nat /\ free <= a /\ a < free'
  BY <1>0, <1>1, <1>2
<1> QED
  BY <1>1, <1>2, <1>8, <1>9

\* A new block is apart from all that is still to be written.
LEMMA NewIsApart ==
  ASSUME TypeOK, BlocksOK, todo # <<>>, NEW new, \A a \in new : a \in Nat /\ free <= a
  PROVE  \A a \in new : <<"memory", a>> \notin Cells(Head(todo))
<1>1. \A a \in new : a \notin Given
  BY DEF BlocksOK, TypeOK
<1>2. \A a : <<"memory", a>> \in Pending(todo) => a \in Given
  BY DEF BlocksOK
<1>3. Cells(Head(todo)) \subseteq Pending(todo)
  BY FirstItem DEF Pending
<1> QED
  BY ONLY <1>1, <1>2, <1>3

\* The header takes the place of its string or list.
LEMMA HeaderFits ==
  ASSUME NEW i \in Items, i.t \in Codecs, i.t.k \in {"string", "list"},
         NEW block \in Nat, NEW n \in Nat, NEW h, h = Header(i, block, n)
  PROVE  h \in Items /\ h.t = HeaderKind /\ Cells(h) = Cells(i)
<1>1. i.at \in Nat /\ i.in \in {"memory", "stack"} /\ i.t # HeaderKind
  BY ItemIs
<1>2. PICK v : v = <<block, n>>
  OBVIOUS
<1>3. v \in Nat \X Nat
  BY <1>2
<1>4. h = Item(HeaderKind, i.in, i.at, v)
  BY <1>2 DEF Header, HeaderKind
<1>5. h \in Items
  BY <1>1, <1>3, <1>4, ItemFits
<1>6. h.t = HeaderKind /\ h.in = i.in /\ h.at = i.at
  BY <1>4 DEF Item
<1>7. i.t.size = 8 /\ i.t.guest.slots = 2
  BY CodecsSound DEF Sound, SoundList
<1>8. Room(h) = Room(i)
  BY <1>1, <1>6, <1>7 DEF Room
<1>9. Cells(h) = Cells(i)
  BY <1>6, <1>8 DEF Cells
<1> QED
  BY <1>5, <1>6, <1>9

\* A string: its characters into a new block, then its header.
LEMMA WriteStringStep ==
  ASSUME TypeOK, BlocksOK, Arriving, WriteString
  PROVE  TypeOK' /\ BlocksOK' /\ Arriving'
<1>1. PICK i : i = Head(todo)
  OBVIOUS
<1>2. /\ Writing({"string"}) /\ stack' = stack /\ UNCHANGED <<handles, extern>> /\ UNCHANGED Outer
  BY <1>1 DEF WriteString
<1>3. /\ phase \in {"lowering", "writing"} /\ todo # <<>> /\ i \in Items /\ i.t \in Codecs /\ i.at \in Nat
      /\ i.t.k = "string" /\ i.t # HeaderKind /\ i.v \in Shapes[i.t]
      /\ Reader \in Sides /\ Side \in Sides
  <2>1. "string" # "header"
    OBVIOUS
  <2> QED
    BY <1>1, <1>2, <2>1, FirstIs
<1>4. /\ i.t[Side] = i.t.guest /\ i.t.elem = U8 /\ i.t.guest.stride = 1 /\ i.t.guest.align = 1
  <2>1. U8.size = 1 /\ U8.align = 1
    BY PlainLaid DEF Laid
  <2> QED
    BY <1>3, <2>1, SameLayout, CodecsSound DEF Sound, SoundList
<1>5. PICK n \in Nat : n = Len(i.v) /\ i.v = [e \in 1..n |-> i.v[e]]
  BY <1>3, ShapesAre
<1>6. PICK at, bytes, h :
        at = AlignUp(free, 1) /\ bytes = [c \in 1..n |-> <<i.v[c], 1>>] /\ h = Header(i, at, n)
  OBVIOUS
<1>7. Realloc(n, 1) /\ Write(at, bytes, <<h>>)
  BY <1>1, <1>4, <1>5, <1>6 DEF WriteString
<1>8. PICK new : new = at..(at + n - 1)
  OBVIOUS
<1>9. /\ at \in Nat /\ at % 1 = 0 /\ at + n <= MemSize
      /\ free' \in Nat /\ free' >= free /\ \A a \in new : a \in Nat /\ free <= a /\ a < free'
      /\ Given' = Given \union new
  BY <1>6, <1>7, <1>8, ReallocIs
<1>10. \A a \in new : <<"memory", a>> \notin Cells(i)
  <2>1. \A a \in new : a \in Nat /\ free <= a
    BY <1>9
  <2> QED
    BY ONLY <1>1, <1>3, <2>1, TypeOK, BlocksOK, NewIsApart
<1>11. h \in Items /\ h.t = HeaderKind /\ Cells(h) = Cells(i)
  BY <1>3, <1>6, <1>9, HeaderFits
<1>12. PICK more : more = <<h>>
  OBVIOUS
<1>13. Follow(more, new) /\ DOMAIN more = {1} /\ more[1] = h
  BY <1>1, <1>11, <1>12, OneFollows
<1>14. PICK U : bytes \in Seq(U) /\ Len(bytes) = n /\ \A c \in 1..n : bytes[c] = <<i.v[c], 1>>
  <2>1. PICK U : U = {<<i.v[c], 1>> : c \in 1..n}
    OBVIOUS
  <2>2. bytes \in [1..n -> U]
    BY <1>6, <2>1
  <2>3. bytes \in Seq(U) /\ Len(bytes) = n
    BY <2>2
  <2> QED
    BY <2>3, <1>6
<1>15. \A a \in at..at + Len(bytes) - 1 :
          /\ a \in new \/ <<"memory", a>> \in Cells(Head(todo))
          /\ \A k \in DOMAIN more : <<"memory", a>> \notin Cells(more[k])
  BY <1>8, <1>10, <1>11, <1>13, <1>14
<1>16. ASSUME NEW w, NEW s, Lie(w.mem, at, bytes), \A k \in DOMAIN more : Carries(Reader, w, s, more[k])
       PROVE  Carries(Reader, w, s, i)
  <2>1. ASSUME NEW e \in 1..n
        PROVE  Finds(Reader, w)[U8][at + (e - 1) * 1] = i.v[e]
    <3>1. PICK x \in Nat : x = at + (e - 1)
      BY <1>9
    <3>2. x \in at..at + Len(bytes) - 1 /\ x - at + 1 = e
      BY <1>9, <1>14, <3>1
    <3>3. x \in DOMAIN w.mem /\ w.mem[x] = bytes[x - at + 1]
      BY <1>16, <3>2 DEF Lie
    <3>4. w.mem[x] = <<i.v[e], 1>>
      BY <1>14, <3>2, <3>3
    <3>5. U8 \in Codecs /\ U8.k = "byte" /\ U8.size = 1
      BY PlainLaid DEF Laid, U8, Plain
    <3>6. PICK y : y = i.v[e]
      OBVIOUS
    <3>7. Lies(w.mem, x, 1, y)
      BY <3>3, <3>4, <3>6 DEF Lies
    <3>8. NumberAt(w, U8, x, y)
      BY <3>5, <3>7 DEF NumberAt
    <3>9. Finds(Reader, w)[U8][x] = y
      BY ONLY <3>8, NumberFound
    <3>10. at + (e - 1) * 1 = x
      BY <3>1
    <3> QED
      BY <3>6, <3>9, <3>10
  <2>2. at + n * 1 <= MemSize
    BY <1>9
  <2>3. ElementsAt(Reader, w, i.t, at, n, i.v)
    BY <1>3, <1>4, <1>5, <1>9, <2>1, <2>2 DEF ElementsAt
  <2>4. Carries(Reader, w, s, Header(i, at, n))
    BY <1>6, <1>13, <1>16
  <2> QED
    BY <1>3, <2>3, <2>4, ListCarried
<1>17. /\ handles' \in Seq(Nat) /\ extern' \in Seq(Nat)
       /\ Keeps(handles', handles) /\ Keeps(extern', extern)
  BY <1>2, TablesStay
<1>18. /\ Write(at, bytes, more)
       /\ \A w, s : /\ Lie(w.mem, at, bytes) /\ \A k \in DOMAIN more : Carries(Reader, w, s, more[k])
                    /\ Keeps(w.handles, handles') /\ Keeps(w.extern, extern')
                    => Carries(Reader, w, s, Head(todo))
  BY <1>1, <1>7, <1>12, <1>16
<1> QED
  BY ONLY <1>2, <1>3, <1>9, <1>13, <1>14, <1>15, <1>17, <1>18, TypeOK, BlocksOK, Arriving, MemoryStep

\* The elements of a list, one after the other in its block.
ElementsOf(i, block, n) ==
  [e \in 1..n |-> Item(i.t.elem, "memory", block + (e - 1) * i.t.guest.stride, i.v[e])]
AreElements(elems, i, block, n, stride) ==
  /\ i \in Items /\ i.t \in Codecs /\ i.t.k = "list" /\ stride = i.t.guest.stride
  /\ block \in Nat /\ n \in Nat /\ n = Len(i.v) /\ elems = ElementsOf(i, block, n)

ElementsLie(elems, i, block, n, stride) ==
  /\ elems \in Seq(Items) /\ Len(elems) = n /\ DOMAIN elems = 1..n /\ Apart(elems)
  /\ \A e \in 1..n :
       /\ Cells(elems[e]) \subseteq {<<"memory", a>> : a \in block..(block + n * stride - 1)}
       /\ elems[e].in = "memory" /\ elems[e].t # HeaderKind /\ elems[e].t = i.t.elem
       /\ elems[e].at = block + (e - 1) * stride /\ elems[e].v = i.v[e]

\* They lie inside the block, apart from each other.
LEMMA ElementsFollow ==
  ASSUME NEW i, NEW block, NEW n, NEW elems, NEW stride, AreElements(elems, i, block, n, stride)
  PROVE  ElementsLie(elems, i, block, n, stride)
<1>0. /\ i \in Items /\ i.t \in Codecs /\ i.t.k = "list" /\ stride = i.t.guest.stride
      /\ block \in Nat /\ n \in Nat /\ n = Len(i.v) /\ elems = ElementsOf(i, block, n)
  BY DEF AreElements
<1>1. i.t.elem \in Codecs /\ i.t.elem.size = stride /\ stride \in {1, 8, 12, 16}
  BY <1>0, CodecsSound DEF Sound, SoundList
<1>2. \A e \in 1..n : i.v[e] \in Shapes[i.t.elem]
  BY <1>0, ShapesAre, ItemIs
<1>3. PICK t \in Codecs : t = i.t.elem
  BY <1>1
<1>4. elems = [e \in 1..n |-> Item(t, "memory", block + (e - 1) * stride, i.v[e])]
  BY <1>0, <1>3 DEF ElementsOf
<1>5. /\ n * stride \in Nat
      /\ \A e \in 1..n : /\ (e - 1) * stride \in Nat
                         /\ (e - 1) * stride + stride <= n * stride
      /\ \A e, f \in 1..n : e < f => (e - 1) * stride + stride <= (f - 1) * stride
  BY <1>0, <1>1, Strided
<1>6. ASSUME NEW e \in 1..n
      PROVE  /\ elems[e] \in Items /\ elems[e].in = "memory" /\ elems[e].t # HeaderKind
             /\ elems[e].t = t /\ elems[e].at = block + (e - 1) * stride /\ elems[e].v = i.v[e]
             /\ Room(elems[e]) = stride
  <2>0. PICK j, v : j = elems[e] /\ v = i.v[e]
    OBVIOUS
  <2>1. PICK at \in Nat : at = block + (e - 1) * stride
    BY <1>0, <1>5
  <2>2. j = Item(t, "memory", at, v) /\ v \in Shapes[t]
    BY <1>2, <1>3, <1>4, <2>0, <2>1
  <2>3. j \in Items
    BY <2>2, ItemFits
  <2>4. j.in = "memory" /\ j.t = t /\ j.at = at /\ j.v = v
    BY <2>2 DEF Item
  <2>5. j.t # HeaderKind
    BY <2>3, <2>4, ItemIs
  <2>6. Room(j) = stride
    BY <1>1, <1>3, <2>4, <2>5 DEF Room
  <2> QED
    BY <2>0, <2>1, <2>3, <2>4, <2>5, <2>6
<1>7. \A e \in 1..n : Cells(elems[e]) =
          {<<"memory", a>> : a \in block + (e - 1) * stride..block + (e - 1) * stride + stride - 1}
  BY <1>6 DEF Cells
<1>8. ASSUME NEW e \in 1..n
      PROVE  Cells(elems[e]) \subseteq {<<"memory", a>> : a \in block..(block + n * stride - 1)}
  <2>1. PICK o \in Nat, l \in Nat, r \in Nat :
          o = (e - 1) * stride /\ l = stride /\ r = n * stride /\ o + l <= r
    BY <1>1, <1>5
  <2>0. o + l <= r
    BY <2>1
  <2>2. (block + o)..(block + o + l - 1) \subseteq block..(block + r - 1)
    BY ONLY <1>0, <2>0, Within, o \in Nat, l \in Nat, r \in Nat
  <2>3. Cells(elems[e]) = {<<"memory", a>> : a \in (block + o)..(block + o + l - 1)}
    BY <1>7, <2>1
  <2> QED
    BY <2>1, <2>2, <2>3
<1>9. ASSUME NEW e \in 1..n, NEW f \in 1..n, e < f, NEW c, c \in Cells(elems[e]), c \in Cells(elems[f])
      PROVE  FALSE
  <2>1. PICK o \in Nat, l \in Nat, p \in Nat :
          o = (e - 1) * stride /\ l = stride /\ p = (f - 1) * stride /\ o + l <= p
    BY <1>1, <1>5, <1>9
  <2>0. o + l <= p
    BY <2>1
  <2>2. \A a \in (block + o)..(block + o + l - 1) : a \notin (block + p)..(block + p + l - 1)
    BY ONLY <1>0, <2>0, Beside, o \in Nat, l \in Nat, p \in Nat
  <2>3. /\ Cells(elems[e]) = {<<"memory", a>> : a \in (block + o)..(block + o + l - 1)}
        /\ Cells(elems[f]) = {<<"memory", a>> : a \in (block + p)..(block + p + l - 1)}
    BY <1>7, <2>1
  <2>4. PICK a \in (block + o)..(block + o + l - 1) : c = <<"memory", a>>
    BY <2>3, <1>9
  <2>5. PICK b \in (block + p)..(block + p + l - 1) : c = <<"memory", b>>
    BY <2>3, <1>9
  <2>6. a = b
    BY ONLY <2>4, <2>5
  <2> QED
    BY ONLY <2>2, <2>4, <2>5, <2>6
<1>10. elems \in Seq(Items) /\ Len(elems) = n /\ DOMAIN elems = 1..n
  <2>1. elems \in [1..n -> Items]
    BY <1>4, <1>6
  <2> QED
    BY <1>0, <2>1
<1>11. Apart(elems)
  <2> SUFFICES ASSUME NEW e \in 1..n, NEW f \in 1..n, e # f
               PROVE  Cells(elems[e]) \intersect Cells(elems[f]) = {}
    BY <1>10 DEF Apart
  <2>1. e < f \/ f < e
    BY <1>0
  <2> QED
    BY <2>1, <1>9
<1> QED
  BY <1>3, <1>6, <1>8, <1>10, <1>11 DEF ElementsLie

\* A list: its elements into a new block, then its header.
LEMMA WriteListStep ==
  ASSUME TypeOK, BlocksOK, Arriving, WriteList
  PROVE  TypeOK' /\ BlocksOK' /\ Arriving'
<1>1. PICK i : i = Head(todo)
  OBVIOUS
<1>2. /\ Writing({"list"})
      /\ UNCHANGED <<mem, touched, stack, extern, handles, Outer>>
  BY <1>1 DEF WriteList
<1>3. /\ phase \in {"lowering", "writing"} /\ todo # <<>> /\ i \in Items /\ i.t \in Codecs /\ i.at \in Nat
      /\ i.t.k = "list" /\ i.t # HeaderKind /\ i.v \in Shapes[i.t]
      /\ Reader \in Sides /\ Side \in Sides
  <2>1. "list" # "header"
    OBVIOUS
  <2> QED
    BY <1>1, <1>2, <2>1, FirstIs
<1>4. PICK stride \in {1, 8, 12, 16}, align \in {1, 4} :
         /\ i.t[Side] = i.t.guest /\ stride = i.t.guest.stride /\ align = i.t.guest.align
  BY <1>3, SameLayout, CodecsSound DEF Sound, SoundList
<1>5. PICK n \in Nat : n = Len(i.v) /\ i.v = [e \in 1..n |-> i.v[e]]
  BY <1>3, ShapesAre
<1>6. PICK at, h, elems : at = AlignUp(free, align) /\ h = Header(i, at, n) /\ elems = ElementsOf(i, at, n)
  OBVIOUS
<1>7. PICK size \in Nat : size = n * stride
  BY Strided
<1>8. Realloc(size, align) /\ todo' = elems \o <<h>> \o Tail(todo)
  BY <1>1, <1>4, <1>5, <1>6, <1>7 DEF WriteList, ElementsOf
<1>9. PICK new : new = at..(at + size - 1)
  OBVIOUS
<1>10. /\ at \in Nat /\ at % align = 0 /\ at + size <= MemSize
       /\ free' \in Nat /\ free' >= free /\ \A a \in new : a \in Nat /\ free <= a /\ a < free'
       /\ Given' = Given \union new
  BY <1>6, <1>8, <1>9, ReallocIs
<1>11. \A a \in new : <<"memory", a>> \notin Cells(i)
  <2>1. \A a \in new : a \in Nat /\ free <= a
    BY <1>10
  <2> QED
    BY ONLY <1>1, <1>3, <2>1, TypeOK, BlocksOK, NewIsApart
<1>12. h \in Items /\ h.t = HeaderKind /\ Cells(h) = Cells(i)
  BY <1>3, <1>6, <1>10, HeaderFits
<1>13. /\ elems \in Seq(Items) /\ Len(elems) = n /\ DOMAIN elems = 1..n /\ Apart(elems)
       /\ \A e \in 1..n :
              /\ Cells(elems[e]) \subseteq {<<"memory", a>> : a \in new}
              /\ elems[e].in = "memory" /\ elems[e].t # HeaderKind /\ elems[e].t = i.t.elem
              /\ elems[e].at = at + (e - 1) * stride /\ elems[e].v = i.v[e]
  <2>1. PICK block \in Nat : block = at
    BY <1>10
  <2>2. AreElements(elems, i, block, n, stride)
    BY <1>3, <1>4, <1>5, <1>6, <2>1 DEF AreElements
  <2>3. ElementsLie(elems, i, block, n, stride)
    BY ONLY <2>2, ElementsFollow
  <2>4. new = block..(block + n * stride - 1)
    BY <1>7, <1>9, <2>1
  <2> QED
    BY <2>1, <2>3, <2>4 DEF ElementsLie
<1>14. PICK more : more = elems \o <<h>>
  OBVIOUS
<1>15. /\ more \in Seq(Items) /\ DOMAIN more = 1..n + 1 /\ more[n + 1] = h
       /\ \A e \in 1..n : more[e] = elems[e]
  <2>1. PICK one : one = <<h>>
    OBVIOUS
  <2>2. one \in Seq(Items) /\ Len(one) = 1 /\ one[1] = h
    BY <1>12, <2>1
  <2>3. /\ more \in Seq(Items) /\ Len(more) = n + 1
        /\ \A k \in 1..n : more[k] = elems[k]
        /\ \A k \in 1..1 : more[n + k] = one[k]
    <3>1. /\ more \in Seq(Items) /\ Len(more) = Len(elems) + Len(one)
          /\ \A k \in 1..Len(elems) : more[k] = elems[k]
          /\ \A k \in 1..Len(one) : more[Len(elems) + k] = one[k]
      BY ONLY <1>13, <1>14, <2>1, <2>2, Joined
    <3> QED
      BY ONLY <3>1, <1>13, <2>2
  <2>4. 1 \in 1..1
    OBVIOUS
  <2>5. more[n + 1] = h
    BY ONLY <2>2, <2>3, <2>4
  <2> QED
    BY <2>3, <2>5
<1>16. Apart(more)
  <2>1. ASSUME NEW e \in 1..n
        PROVE  Cells(more[e]) \intersect Cells(more[n + 1]) = {}
    <3>1. Cells(more[e]) \subseteq {<<"memory", a>> : a \in new} /\ Cells(more[n + 1]) = Cells(i)
      BY <1>12, <1>13, <1>15
    <3> QED
      BY <3>1, <1>11
  <2>2. \A e, f \in 1..n : e # f => Cells(more[e]) \intersect Cells(more[f]) = {}
    <3>1. \A e, f \in 1..n : e # f => Cells(elems[e]) \intersect Cells(elems[f]) = {}
      BY <1>13 DEF Apart
    <3> QED
      BY <3>1, <1>15
  <2>3. \A e \in 1..n + 1 : e \in 1..n \/ e = n + 1
    OBVIOUS
  <2> SUFFICES ASSUME NEW e \in 1..n + 1, NEW f \in 1..n + 1, e # f
               PROVE  Cells(more[e]) \intersect Cells(more[f]) = {}
    BY <1>15 DEF Apart
  <2> QED
    BY <2>1, <2>2, <2>3
<1>17. Follow(more, new)
  <2>1. ASSUME NEW k \in 1..n + 1
        PROVE  /\ Cells(more[k]) \subseteq Cells(i) \union {<<"memory", a>> : a \in new}
               /\ more[k].in = "stack" => more[k].t = HeaderKind
    <3>1. CASE k = n + 1
      BY <3>1, <1>12, <1>15
    <3>2. CASE k \in 1..n
      BY <3>2, <1>13, <1>15
    <3> QED
      BY <3>1, <3>2
  <2> QED
    BY <2>1, <1>1, <1>15, <1>16 DEF Follow
<1>18. ASSUME NEW w, NEW s, \A k \in DOMAIN more : Carries(Reader, w, s, more[k])
       PROVE  Carries(Reader, w, s, i)
  <2>1. ASSUME NEW e \in 1..n
        PROVE  Finds(Reader, w)[i.t.elem][at + (e - 1) * stride] = i.v[e]
    <3>1. e \in 1..n + 1
      OBVIOUS
    <3>2. Carries(Reader, w, s, elems[e])
      BY <1>15, <1>18, <3>1
    <3> QED
      BY <3>2, <1>13 DEF Carries
  <2>2. at + n * stride <= MemSize
    BY <1>7, <1>10
  <2>3. ElementsAt(Reader, w, i.t, at, n, i.v)
    BY <1>3, <1>4, <1>5, <1>10, <2>1, <2>2 DEF ElementsAt
  <2>4. n + 1 \in 1..n + 1
    OBVIOUS
  <2>5. Carries(Reader, w, s, Header(i, at, n))
    BY <1>6, <1>15, <1>18, <2>4
  <2> QED
    BY <1>3, <2>3, <2>5, ListCarried
<1>19. /\ todo' = more \o Tail(todo)
       /\ \A w, s : (\A k \in DOMAIN more : Carries(Reader, w, s, more[k])) => Carries(Reader, w, s, Head(todo))
  BY <1>1, <1>8, <1>14, <1>18
<1>20. UNCHANGED <<mem, touched, stack, handles, extern, Outer>>
  BY <1>2
<1> QED
  BY ONLY <1>3, <1>10, <1>17, <1>19, <1>20, TypeOK, BlocksOK, Arriving, SplitStep

-----------------------------------------------------------------------------
(* The steps before, between and after the writing.                        *)

\* An answer is a value that has to be written.
Answered == phase = "answered" => Codec.result # NoPayload

IInv == TypeOK /\ BlocksOK /\ Arriving /\ Answered /\ ArgumentsArrive /\ ResultArrives

\* While a side writes, the calls' last steps are still to come.
LEMMA WritingOn ==
  ASSUME phase \in {"lowering", "writing"}, UNCHANGED Outer
  PROVE  Answered' /\ ArgumentsArrive' /\ ResultArrives'
BY DEF Outer, Answered, ArgumentsArrive, ResultArrives

\* Every step of writing.
LEMMA WritingSteps ==
  ASSUME IInv, Push \/ WriteNumber \/ WriteCase \/ WriteRecord \/ WriteString \/ WriteList
               \/ WriteHeader \/ BindHandle
  PROVE  IInv'
<1>1. phase \in {"lowering", "writing"} /\ UNCHANGED Outer
  BY DEF Push, WriteNumber, WriteCase, WriteRecord, WriteString, WriteList, WriteHeader, BindHandle, Writing
<1>2. Answered' /\ ArgumentsArrive' /\ ResultArrives'
  BY <1>1, WritingOn
<1>3. TypeOK /\ BlocksOK /\ Arriving
  BY DEF IInv
<1>4. TypeOK' /\ BlocksOK' /\ Arriving'
  BY ONLY <1>3, Push \/ WriteNumber \/ WriteCase \/ WriteRecord \/ WriteString \/ WriteList
               \/ WriteHeader \/ BindHandle,
     PushStep, WriteNumberStep, WriteCaseStep, WriteRecordStep, WriteStringStep, WriteListStep,
     WriteHeaderStep, BindHandleStep
<1> QED
  BY <1>2, <1>4 DEF IInv

\* A function of the interfaces.
LEMMA CodecIs ==
  ASSUME TypeOK, phase \notin {"idle", "trapped"}
  PROVE  SoundFunc(Codec)
BY FunctionsSound DEF TypeOK, Codec

\* The values of a call.
LEMMA ValuesAreShapes ==
  ASSUME TypeOK, NEW t \in Codecs
  PROVE  /\ Values[t] \subseteq Shapes[t]
         /\ t.k = "borrow" => Values[t] \subseteq DOMAIN handles
<1>1. PICK L, O : L = {Library(n) : n \in {Len(extern) + 1} \intersect 1..MaxLoads} /\ O = OpenHandles
  OBVIOUS
<1>2. L \in SUBSET Nat
  BY <1>1 DEF Library
<1>3. PICK hs \in Seq(Nat) : hs = handles
  BY DEF TypeOK
<1>4. O \in SUBSET Nat /\ O \subseteq DOMAIN handles
  BY <1>1, <1>3 DEF OpenHandles
<1>5. PICK f : f = ValuesOf(L, O) /\ f[t] = ValuesBy(L, O, f, t)
  BY ValuesAre
<1>6. Values = ValuesOf(L, O)
  BY <1>1 DEF Values
<1>7. t.k = "borrow" => f[t] = O
  BY <1>5 DEF ValuesBy
<1> QED
  BY <1>2, <1>4, <1>5, <1>6, <1>7, ValuesFit

\* At first, and after a call, nothing is written nor to be written.
LEMMA Idle ==
  ASSUME mem = <<>>, free = First, blocks = {}, touched = {}, todo = <<>>, phase = "idle",
         extern \in Seq(Nat), handles \in Seq(Nat)
  PROVE  IInv
<1>1. TypeOK
  <2>1. <<>> \in Seq(Items)
    OBVIOUS
  <2>2. DOMAIN todo = {}
    OBVIOUS
  <2> QED
    BY <2>1, <2>2 DEF TypeOK, First
<1>2. BlocksOK
  <2>1. DOMAIN mem = {} /\ DOMAIN todo = {}
    OBVIOUS
  <2>2. Given = {}
    BY DEF Given
  <2> QED
    BY <2>1, <2>2 DEF BlocksOK, Pending, Apart
<1>3. Arriving /\ Answered /\ ArgumentsArrive /\ ResultArrives
  BY DEF Arriving, Answered, ArgumentsArrive, ResultArrives
<1> QED
  BY <1>1, <1>2, <1>3 DEF IInv

\* At first.
LEMMA InitHolds ==
  ASSUME Init
  PROVE  IInv
<1>1. <<>> \in Seq(Nat) /\ <<0>> \in Seq(Nat)
  OBVIOUS
<1> QED
  BY <1>1, Idle DEF Init

\* When the guest has freed what a call used, and in a new instance.
LEMMA ForgetStep ==
  ASSUME IInv, Finish \/ Instantiate
  PROVE  IInv'
<1>1. /\ (mem = <<>>)' /\ (free = First)' /\ (blocks = {})' /\ (touched = {})' /\ (todo = <<>>)'
      /\ (phase = "idle")'
  BY DEF Finish, Instantiate, Forget, First
<1>2. <<>> \in Seq(Nat) /\ <<0>> \in Seq(Nat)
  OBVIOUS
<1>3. (extern \in Seq(Nat))' /\ (handles \in Seq(Nat))'
  BY <1>2 DEF Finish, Instantiate, IInv, TypeOK
<1> QED
  BY <1>1, <1>3, Idle, PTL

\* The guest calls a function: its arguments, each for slots of its own.
Lowering(f, v, q) ==
  q = [i \in DOMAIN HostFunctions[f].params |->
         Item(HostFunctions[f].params[i].codec, "stack",
              FirstSlots(CodecsOf(HostFunctions[f]))[i], v[i])]

\* The arguments are items, and no two share a slot.
LEMMA ArgumentsApart ==
  ASSUME NEW f \in DOMAIN HostFunctions, NEW v, NEW q, Lowering(f, v, q),
         \A i \in DOMAIN HostFunctions[f].params : v[i] \in Shapes[HostFunctions[f].params[i].codec]
  PROVE  /\ q \in Seq(Items) /\ Apart(q) /\ DOMAIN q = DOMAIN HostFunctions[f].params
         /\ \A i \in DOMAIN q : /\ q[i].in = "stack" /\ q[i].t = HostFunctions[f].params[i].codec
                                /\ q[i].v = v[i]
<1>1. PICK F, ps : F = HostFunctions[f] /\ ps = F.params
  OBVIOUS
<1>2. /\ DOMAIN ps = 1..Len(ps) /\ Len(ps) \in 0..3
      /\ \A i \in DOMAIN ps :
            /\ ps[i].codec \in Codecs /\ ps[i].codec.k \in Lowered
            /\ ps[i].from \in Nat /\ ps[i].from = FirstSlots(CodecsOf(F))[i]
            /\ ps[i].to = ps[i].from + ps[i].codec.guest.slots
      /\ \A i, j \in DOMAIN ps : i < j => ps[i].to <= ps[j].from
  BY <1>1, FunctionsSound DEF SoundFunc
<1>3. q = [i \in DOMAIN ps |-> Item(ps[i].codec, "stack", ps[i].from, v[i])]
  BY <1>1, <1>2 DEF Lowering
<1>4. ASSUME NEW i \in DOMAIN ps
      PROVE  /\ q[i] \in Items /\ q[i].in = "stack" /\ q[i].t = ps[i].codec /\ q[i].v = v[i]
             /\ q[i].at = ps[i].from /\ Room(q[i]) = ps[i].codec.guest.slots
  <2>1. PICK j, x : j = q[i] /\ x = v[i]
    OBVIOUS
  <2>2. PICK t \in Codecs, at \in Nat : t = ps[i].codec /\ at = ps[i].from
    BY <1>2
  <2>3. t.k \in Lowered /\ x \in Shapes[t] /\ j = Item(t, "stack", at, x)
    BY <1>1, <1>2, <1>3, <2>1, <2>2
  <2>4. j \in Items
    BY <2>3, ItemFits
  <2>5. j.in = "stack" /\ j.t = t /\ j.at = at /\ j.v = x
    BY <2>3 DEF Item
  <2>6. j.t # HeaderKind
    BY <2>4, <2>5, ItemIs
  <2>7. Room(j) = t.guest.slots
    BY <2>5, <2>6 DEF Room
  <2> QED
    BY <2>1, <2>2, <2>4, <2>5, <2>7
<1>5. DOMAIN q = DOMAIN ps
  BY <1>3
<1>6. q \in Seq(Items)
  <2>1. q \in [1..Len(ps) -> Items]
    BY <1>2, <1>3, <1>4
  <2> QED
    BY <1>2, <2>1
<1>7. ASSUME NEW i \in DOMAIN ps, NEW j \in DOMAIN ps, i < j, NEW c, c \in Cells(q[i]), c \in Cells(q[j])
      PROVE  FALSE
  <2>1. PICK a \in q[i].at..q[i].at + Room(q[i]) - 1 : c = <<"stack", a>>
    BY <1>4, <1>7 DEF Cells
  <2>2. PICK b \in q[j].at..q[j].at + Room(q[j]) - 1 : c = <<"stack", b>>
    BY <1>4, <1>7 DEF Cells
  <2>3. a = b
    BY ONLY <2>1, <2>2
  <2>4. PICK x \in Nat, m \in Nat, y \in Nat, n \in Nat :
          /\ x = ps[i].from /\ m = ps[i].codec.guest.slots
          /\ y = ps[j].from /\ n = ps[j].codec.guest.slots
          /\ x + m <= y
    <3>1. /\ ps[i].from \in Nat /\ ps[j].from \in Nat
          /\ ps[i].codec.guest.slots \in Nat /\ ps[j].codec.guest.slots \in Nat
      BY <1>2, CodecsSound DEF Sound
    <3>2. ps[i].from + ps[i].codec.guest.slots <= ps[j].from
      BY <1>2, <1>7
    <3> QED
      BY <3>1, <3>2
  <2>5. a \in x..x + m - 1 /\ b \in y..y + n - 1
    BY <1>4, <2>1, <2>2, <2>4
  <2>6. x + m <= y
    BY <2>4
  <2> QED
    BY ONLY <2>3, <2>5, <2>6, x \in Nat, m \in Nat, y \in Nat, n \in Nat
<1>8. Apart(q)
  <2> SUFFICES ASSUME NEW i \in DOMAIN ps, NEW j \in DOMAIN ps, i # j
               PROVE  Cells(q[i]) \intersect Cells(q[j]) = {}
    BY <1>5 DEF Apart
  <2>1. i < j \/ j < i
    BY <1>2
  <2> QED
    BY <2>1, <1>7
<1> QED
  BY <1>1, <1>4, <1>5, <1>6, <1>8

\* The guest calls.
LEMMA CallStep ==
  ASSUME IInv, Call
  PROVE  IInv'
<1>1. TypeOK /\ BlocksOK
  BY DEF IInv
<1>2. /\ phase' = "lowering"
      /\ UNCHANGED <<mem, free, blocks, touched, stack, lifted, result, out, got, extern, handles>>
  BY DEF Call
<1>3. PICK f \in DOMAIN HostFunctions :
        \E v \in Product([i \in DOMAIN CodecsOf(HostFunctions[f]) |->
                            Values[CodecsOf(HostFunctions[f])[i]]]) :
           /\ fn' = f /\ args' = v
           /\ todo' = [i \in DOMAIN CodecsOf(HostFunctions[f]) |->
                         Item(CodecsOf(HostFunctions[f])[i], "stack",
                              FirstSlots(CodecsOf(HostFunctions[f]))[i], v[i])]
  BY DEF Call, CodecsOf
<1>4. PICK F, ps, codecs : F = HostFunctions[f] /\ ps = F.params /\ codecs = CodecsOf(F)
  OBVIOUS
<1>5. /\ DOMAIN ps = 1..Len(ps) /\ Len(ps) \in 0..3
      /\ \A i \in DOMAIN ps : ps[i].codec \in Codecs
  BY <1>4, FunctionsSound DEF SoundFunc
<1>6. codecs = [i \in DOMAIN ps |-> ps[i].codec]
  BY <1>4 DEF CodecsOf
<1>7. PICK sets : sets = [i \in DOMAIN codecs |-> Values[codecs[i]]]
  OBVIOUS
<1>8. PICK v \in Product(sets) :
        /\ fn' = f /\ args' = v
        /\ todo' = [i \in DOMAIN codecs |-> Item(codecs[i], "stack", FirstSlots(codecs)[i], v[i])]
  BY <1>3, <1>4, <1>7, SMTT(30)
<1>9. DOMAIN codecs = DOMAIN ps /\ DOMAIN sets = DOMAIN ps
  BY <1>6, <1>7
<1>10. \A i \in DOMAIN ps : v[i] \in Values[ps[i].codec]
  <2>1. PICK U : U = {Values[t] : t \in Codecs}
    OBVIOUS
  <2>2. PICK n \in 0..3 : n = Len(ps)
    BY <1>5
  <2>3. sets \in [1..n -> U]
    BY <1>5, <1>6, <1>7, <1>9, <2>1, <2>2
  <2>4. sets \in Seq(U) /\ Len(sets) \in 0..3
    BY <2>3
  <2>5. \A i \in DOMAIN sets : v[i] \in sets[i]
    BY <2>4, ProductIs
  <2> QED
    BY <2>5, <1>6, <1>7, <1>9
<1>11. \A i \in DOMAIN ps :
         /\ v[i] \in Shapes[ps[i].codec]
         /\ ps[i].codec.k = "borrow" => v[i] \in DOMAIN handles
  BY <1>1, <1>5, <1>10, ValuesAreShapes
<1>12. PICK q : q = todo'
  OBVIOUS
<1>13. Lowering(f, v, q)
  BY <1>4, <1>6, <1>8, <1>9, <1>12 DEF Lowering
<1>14. /\ q \in Seq(Items) /\ Apart(q) /\ DOMAIN q = DOMAIN ps
       /\ \A i \in DOMAIN q : q[i].in = "stack" /\ q[i].t = ps[i].codec /\ q[i].v = v[i]
  BY <1>4, <1>11, <1>13, ArgumentsApart
<1>15. TypeOK'
  <2>1. \A j \in DOMAIN q : q[j].in = "stack" /\ q[j].t.k = "borrow" => q[j].v \in DOMAIN handles
    BY <1>11, <1>14
  <2> QED
    BY <1>1, <1>2, <1>8, <1>12, <1>14, <2>1 DEF TypeOK
<1>16. BlocksOK'
  <2>1. \A a : <<"memory", a>> \notin Pending(q)
    BY <1>14 DEF Pending, Cells
  <2>2. Given' = Given
    BY <1>2 DEF Given
  <2> QED
    BY <1>1, <1>2, <1>12, <1>14, <2>1, <2>2 DEF BlocksOK
<1>17. Arriving'
  <2>1. Reader' = "host" /\ Codec' = F
    BY <1>2, <1>4, <1>8 DEF Reader, Codec
  <2>2. \A i \in DOMAIN ps : Argument(i)' = q[i]
    BY <1>4, <1>6, <1>8, <1>9, <1>12, <2>1 DEF Argument
  <2>3. ASSUME NEW w, NEW s, \A j \in DOMAIN q : Carries("host", w, s, q[j])
        PROVE  Arrives(w, s)'
    BY <1>2, <1>4, <1>14, <2>1, <2>2, <2>3 DEF Arrives
  <2> QED
    BY <1>12, <2>1, <2>3 DEF Arriving, Completes
<1>18. Answered' /\ ArgumentsArrive' /\ ResultArrives'
  BY <1>2 DEF Answered, ArgumentsArrive, ResultArrives
<1> QED
  BY <1>15, <1>16, <1>17, <1>18 DEF IInv

\* What is written is what is found, once nothing is left to be written.
LEMMA AllWritten ==
  ASSUME Arriving, phase \in {"lowering", "writing"}, todo = <<>>
  PROVE  Arrives(Now, stack)
<1>1. Pending(todo) = {} /\ DOMAIN todo = {}
  BY DEF Pending
<1>2. Now.mem = mem /\ Now.handles = handles /\ Now.extern = extern
  BY DEF Now
<1>3. Completes(Reader, Now, stack, mem, stack, handles, extern, todo)
  BY <1>1, <1>2 DEF Completes, Agree, Keeps
<1> QED
  BY <1>3 DEF Arriving

\* A parameter is lifted as it was passed.
LEMMA Lifted ==
  ASSUME TypeOK, phase = "lowering", NEW i \in DOMAIN Codec.params,
         Carries("host", Now, stack, Argument(i))
  PROVE  LiftParam(Codec.params[i]) = Meant(Codec.params[i].codec, args[i])
<1>1. SoundFunc(Codec)
  BY CodecIs
<1>2. PICK p : p = Codec.params[i]
  OBVIOUS
<1>3. /\ p.codec \in Codecs /\ p.codec.k \in Lowered
      /\ p.from \in Nat /\ p.from = FirstSlots(CodecsOf(Codec))[i]
      /\ p.to = p.from + p.codec.guest.slots
  BY <1>1, <1>2 DEF SoundFunc
<1>4. PICK j, v : j = Argument(i) /\ v = args[i]
  OBVIOUS
<1>5. j.t = p.codec /\ j.in = "stack" /\ j.at = p.from /\ j.v = v
  BY <1>2, <1>3, <1>4 DEF Argument, Item
<1>6. p.codec # HeaderKind
  <2>1. p.codec.k # "header" /\ HeaderKind.k = "header"
    BY <1>3 DEF Lowered, HeaderKind
  <2> QED
    BY <2>1
<1>7. Carries("host", Now, stack, j)
  BY <1>4
<1>8. Now.handles = handles
  BY DEF Now
<1>9. CASE p.codec.k \in {"byte", "word"}
  <2>1. stack[p.from] = v
    BY <1>5, <1>6, <1>7, <1>9 DEF Carries
  <2> QED
    BY <1>2, <1>4, <1>9, <2>1 DEF LiftParam, Meant
<1>10. CASE p.codec.k = "borrow"
  <2>1. stack[p.from] = handles[v]
    BY <1>5, <1>6, <1>7, <1>8, <1>10 DEF Carries
  <2> QED
    BY <1>2, <1>4, <1>10, <2>1 DEF LiftParam, Meant
<1>11. CASE p.codec.k \in {"string", "list"}
  <2>1. Elements("host", Finds("host", Now), p.codec, stack[p.from], stack[p.from + 1]) = v
    BY <1>5, <1>6, <1>7, <1>11 DEF Carries
  <2>2. p.codec.guest.slots = 2
    BY <1>3, <1>11, CodecsSound DEF Sound, SoundList
  <2>3. p.to - 1 = p.from + 1
    BY <1>3, <2>2
  <2> QED
    BY <1>2, <1>4, <1>11, <2>1, <2>3 DEF LiftParam, Meant
<1> QED
  BY <1>3, <1>9, <1>10, <1>11 DEF Lowered

\* The call reaches the host.
LEMMA LiftStep ==
  ASSUME IInv, Lift
  PROVE  IInv'
<1>1. /\ phase = "lowering" /\ todo = <<>> /\ phase' = "implementation"
      /\ lifted' = [i \in DOMAIN Codec.params |-> LiftParam(Codec.params[i])]
      /\ blocks' = {} /\ touched' = {}
      /\ UNCHANGED <<mem, free, fn, args, stack, result, out, todo, got, extern, handles>>
  BY DEF Lift
<1>2. TypeOK /\ BlocksOK /\ Arriving
  BY DEF IInv
<1>3. ArgumentsArrive'
  <2>1. Arrives(Now, stack)
    BY <1>1, <1>2, AllWritten
  <2>2. \A i \in DOMAIN Codec.params : LiftParam(Codec.params[i]) = Meant(Codec.params[i].codec, args[i])
    BY <1>1, <1>2, <2>1, Lifted DEF Arrives
  <2>3. Codec' = Codec /\ \A t, v : Meant(t, v)' = Meant(t, v)
    BY <1>1 DEF Codec, Meant
  <2>4. \A i \in DOMAIN Codec.params : lifted'[i] = Meant(Codec.params[i].codec, args[i])
    BY <1>1, <2>2
  <2> QED
    BY <1>1, <2>3, <2>4 DEF ArgumentsArrive
<1>4. TypeOK'
  BY <1>1, <1>2 DEF TypeOK
<1>5. BlocksOK'
  <2>1. Pending(todo') = {} /\ Given' = {}
    BY <1>1 DEF Pending, Given
  <2> QED
    BY <1>1, <1>2, <2>1 DEF BlocksOK
<1>6. Arriving' /\ Answered' /\ ResultArrives'
  BY <1>1 DEF Arriving, Answered, ResultArrives
<1> QED
  BY <1>3, <1>4, <1>5, <1>6 DEF IInv

\* The implementation returns, or the guest traps.
LEMMA ImplementationStep ==
  ASSUME IInv, Implementation
  PROVE  IInv'
<1>1. /\ phase = "implementation"
      /\ UNCHANGED <<mem, free, blocks, touched, fn, args, stack, lifted, out, todo, got,
                 extern, handles>>
      /\ \/ /\ result' \in Values[Codec.result]
            /\ phase' = IF Codec.result = NoPayload THEN "returned" ELSE "answered"
         \/ phase' = "trapped" /\ result' = result
  BY DEF Implementation
<1>2. TypeOK /\ BlocksOK
  BY DEF IInv
<1>3. Codec' = Codec /\ Codec.result \in Codecs
  <2>1. SoundFunc(Codec)
    BY <1>1, <1>2, CodecIs
  <2> QED
    BY <1>1, <2>1 DEF SoundFunc, Codec
<1>4. phase' = "answered" => result' \in Shapes[Codec.result] /\ Codec.result # NoPayload
  BY <1>1, <1>2, <1>3, ValuesAreShapes
<1>5. TypeOK'
  BY <1>1, <1>2, <1>3, <1>4 DEF TypeOK
<1>6. BlocksOK'
  <2>1. Given' = Given
    BY <1>1 DEF Given
  <2> QED
    BY <1>1, <1>2, <2>1 DEF BlocksOK
<1>7. Arriving' /\ Answered' /\ ArgumentsArrive' /\ ResultArrives'
  BY <1>1, <1>3, <1>4 DEF Arriving, Answered, ArgumentsArrive, ResultArrives
<1> QED
  BY <1>5, <1>6, <1>7 DEF IInv

\* The guest gives a block for the result.
LEMMA AllocateOutStep ==
  ASSUME IInv, AllocateOut
  PROVE  IInv'
<1>1. /\ phase = "answered" /\ phase' = "writing"
      /\ Realloc(Codec.size, Codec.align) /\ out' = AlignUp(free, Codec.align)
      /\ todo' = <<Item(Codec.result, "memory", out', result)>>
      /\ UNCHANGED <<mem, touched, fn, args, stack, lifted, result, got, extern, handles>>
  BY DEF AllocateOut
<1>2. TypeOK /\ BlocksOK /\ Answered
  BY DEF IInv
<1>3. PICK t \in Codecs, n \in Nat, align \in {1, 4} :
        /\ t = Codec.result /\ t # NoPayload /\ n = t.size /\ align = t.align
        /\ n = Codec.size /\ align = Codec.align /\ result \in Shapes[t]
  <2>1. SoundFunc(Codec)
    BY <1>1, <1>2, CodecIs
  <2>2. /\ Codec.result \in Codecs /\ Codec.result # NoPayload
        /\ Codec.size = Codec.result.size /\ Codec.align = Codec.result.align
    BY <1>1, <1>2, <2>1 DEF SoundFunc, Answered
  <2>3. Codec.result.size \in Nat /\ Codec.result.align \in {1, 4}
    BY <2>2, CodecsSound DEF Sound
  <2>4. result \in Shapes[Codec.result]
    BY <1>1, <1>2 DEF TypeOK
  <2> QED
    BY <2>2, <2>3, <2>4
<1>4. PICK at : at = AlignUp(free, align)
  OBVIOUS
<1>5. PICK new : new = at..(at + n - 1)
  OBVIOUS
<1>6. Realloc(n, align) /\ out' = at
  BY <1>1, <1>3, <1>4
<1>7. /\ at \in Nat
      /\ free' \in Nat /\ free' >= free /\ \A a \in new : a \in Nat /\ free <= a /\ a < free'
      /\ Given' = Given \union new
  BY <1>2, <1>4, <1>5, <1>6, ReallocIs
<1>8. PICK j, v : j = Item(t, "memory", at, v) /\ v = result
  OBVIOUS
<1>9. j \in Items
  BY <1>3, <1>7, <1>8, ItemFits
<1>10. j.t = t /\ j.in = "memory" /\ j.at = at /\ j.v = v
  BY <1>8 DEF Item
<1>11. j.t # HeaderKind
  BY <1>9, <1>10, ItemIs
<1>12. Cells(j) = {<<"memory", a>> : a \in new}
  <2>1. Room(j) = n
    BY <1>3, <1>10, <1>11 DEF Room
  <2> QED
    BY <1>5, <1>10, <2>1 DEF Cells
<1>13. PICK q : q = todo'
  OBVIOUS
<1>14. q = <<j>>
  BY <1>1, <1>3, <1>6, <1>8, <1>13
<1>15. q \in Seq(Items) /\ DOMAIN q = {1} /\ q[1] = j
  BY <1>9, <1>14
<1>16. TypeOK'
  BY <1>1, <1>2, <1>7, <1>10, <1>13, <1>15 DEF TypeOK
<1>17. BlocksOK'
  <2>1. \A a : <<"memory", a>> \in Pending(q) => a \in new
    BY <1>12, <1>15 DEF Pending
  <2>2. Apart(q)
    BY <1>15 DEF Apart
  <2>3. \A a \in Given' \union DOMAIN mem' : a \in Nat /\ a < free'
    <3>1. \A a \in Given \union DOMAIN mem : a \in Nat /\ a < free
      BY <1>2 DEF BlocksOK
    <3>2. free \in Nat
      BY <1>2 DEF TypeOK
    <3> QED
      BY <1>1, <1>7, <3>1, <3>2
  <2> QED
    BY <1>1, <1>2, <1>7, <1>13, <2>1, <2>2, <2>3 DEF BlocksOK
<1>18. Arriving'
  <2>1. Reader' = "guest" /\ Codec' = Codec
    BY <1>1 DEF Reader, Codec
  <2>2. ASSUME NEW w, NEW s, Carries("guest", w, s, q[1])
        PROVE  Arrives(w, s)'
    <3>1. Finds("guest", w)[t][at] = v
      BY <1>10, <1>11, <1>15, <2>2 DEF Carries
    <3> QED
      BY <1>1, <1>3, <1>6, <1>8, <2>1, <3>1 DEF Arrives
  <2> QED
    BY <1>13, <1>15, <2>1, <2>2 DEF Arriving, Completes
<1>19. Answered' /\ ArgumentsArrive' /\ ResultArrives'
  BY <1>1 DEF Answered, ArgumentsArrive, ResultArrives
<1> QED
  BY <1>16, <1>17, <1>18, <1>19 DEF IInv

\* Guest code traps.
LEMMA ReallocFailsStep ==
  ASSUME IInv, ReallocFails
  PROVE  IInv'
<1>1. /\ phase' = "trapped"
      /\ UNCHANGED <<mem, free, blocks, touched, fn, args, stack, lifted, result, out, todo,
                 got, extern, handles>>
  BY DEF ReallocFails
<1>2. TypeOK /\ BlocksOK
  BY DEF IInv
<1>3. TypeOK'
  BY <1>1, <1>2 DEF TypeOK
<1>4. BlocksOK'
  <2>1. Given' = Given
    BY <1>1 DEF Given
  <2> QED
    BY <1>1, <1>2, <2>1 DEF BlocksOK
<1>5. Arriving' /\ Answered' /\ ArgumentsArrive' /\ ResultArrives'
  BY <1>1 DEF Arriving, Answered, ArgumentsArrive, ResultArrives
<1> QED
  BY <1>3, <1>4, <1>5 DEF IInv

\* The guest reads the result.
LEMMA ReturnStep ==
  ASSUME IInv, Return
  PROVE  IInv'
<1>1. /\ phase = "writing" /\ todo = <<>> /\ phase' = "returned"
      /\ got' = Finds("guest", Now)[Codec.result][out]
      /\ UNCHANGED <<mem, free, blocks, touched, fn, args, stack, lifted, result, out, todo,
                 extern, handles>>
  BY DEF Return
<1>2. TypeOK /\ BlocksOK /\ Arriving
  BY DEF IInv
<1>3. ResultArrives'
  <2>1. Arrives(Now, stack)
    BY <1>1, <1>2, AllWritten
  <2>2. Finds("guest", Now)[Codec.result][out] = result
    BY <1>1, <2>1 DEF Arrives
  <2>3. got' = result'
    BY <1>1, <2>2
  <2> QED
    BY <2>3 DEF ResultArrives
<1>4. TypeOK'
  BY <1>1, <1>2 DEF TypeOK
<1>5. BlocksOK'
  <2>1. Given' = Given
    BY <1>1 DEF Given
  <2> QED
    BY <1>1, <1>2, <2>1 DEF BlocksOK
<1>6. Arriving' /\ Answered' /\ ArgumentsArrive'
  BY <1>1 DEF Arriving, Answered, ArgumentsArrive
<1> QED
  BY <1>3, <1>4, <1>5, <1>6 DEF IInv

\* Nothing happens.
LEMMA StutterStep ==
  ASSUME IInv, UNCHANGED vars
  PROVE  IInv'
<1>1. /\ mem' = mem /\ free' = free /\ blocks' = blocks /\ touched' = touched /\ fn' = fn
      /\ args' = args /\ stack' = stack /\ lifted' = lifted /\ result' = result /\ out' = out
      /\ todo' = todo /\ got' = got /\ extern' = extern /\ handles' = handles /\ phase' = phase
  BY DEF vars
<1>2. TypeOK /\ BlocksOK /\ Arriving /\ Answered /\ ArgumentsArrive /\ ResultArrives
  BY DEF IInv
<1>3. Codec' = Codec /\ Given' = Given /\ Reader' = Reader
  BY <1>1 DEF Codec, Given, Reader
<1>4. TypeOK'
  BY <1>1, <1>2, <1>3 DEF TypeOK
<1>5. BlocksOK'
  BY <1>1, <1>2, <1>3 DEF BlocksOK
<1>6. Arriving'
  <2>1. \A w, s : Arrives(w, s)' <=> Arrives(w, s)
    BY <1>1, <1>3 DEF Arrives, Argument
  <2> QED
    BY <1>1, <1>2, <1>3, <2>1 DEF Arriving
<1>7. Answered' /\ ArgumentsArrive' /\ ResultArrives'
  BY <1>1, <1>2, <1>3 DEF Answered, ArgumentsArrive, ResultArrives, Meant
<1> QED
  BY <1>4, <1>5, <1>6, <1>7 DEF IInv

\* The inductive invariant holds throughout.
LEMMA Invariant == Spec => []IInv
<1>1. Init => IInv
  BY InitHolds
<1>2. IInv /\ [Next]_vars => IInv'
  <2> SUFFICES ASSUME IInv, [Next]_vars PROVE IInv'
    OBVIOUS
  <2>1. CASE Call
    BY <2>1, CallStep
  <2>2. CASE Lift
    BY <2>2, LiftStep
  <2>3. CASE Implementation
    BY <2>3, ImplementationStep
  <2>4. CASE AllocateOut
    BY <2>4, AllocateOutStep
  <2>5. CASE ReallocFails
    BY <2>5, ReallocFailsStep
  <2>6. CASE Push \/ WriteNumber \/ WriteCase \/ WriteRecord \/ WriteString \/ WriteList
             \/ WriteHeader \/ BindHandle
    BY <2>6, WritingSteps
  <2>7. CASE Return
    BY <2>7, ReturnStep
  <2>8. CASE Finish \/ Instantiate
    BY <2>8, ForgetStep
  <2>9. CASE UNCHANGED vars
    BY <2>9, StutterStep
  <2> QED
    BY <2>1, <2>2, <2>3, <2>4, <2>5, <2>6, <2>7, <2>8, <2>9 DEF Next
<1> QED
  BY <1>1, <1>2, PTL DEF Spec

\* The implementation gets what the guest passed, for every host function, every
\* argument and every trap of the guest's allocator: the strides, offsets and slots
\* the bindings have for parameters are the canonical ones.
THEOREM ArgumentsReach == Spec => []ArgumentsArrive
<1>1. IInv => ArgumentsArrive
  BY DEF IInv
<1> QED
  BY <1>1, Invariant, PTL

\* The guest reads what the implementation returned, for every host function and
\* every result, though guest code runs between the writes.
THEOREM ResultsReach == Spec => []ResultArrives
<1>1. IInv => ResultArrives
  BY DEF IInv
<1> QED
  BY <1>1, Invariant, PTL

\* No side writes a byte outside the blocks it was given: the constant sizes of result
\* blocks and list elements are enough for every value.
THEOREM WritesAreInBlocks == Spec => []WritesStayInBlocks
<1>1. IInv => WritesStayInBlocks
  BY DEF IInv, BlocksOK, Given, WritesStayInBlocks
<1> QED
  BY <1>1, Invariant, PTL

\* What FlatFits is, when there is such a function.
LEMMA FlatFix ==
  ASSUME NEW g, g = [t \in Codecs |-> t.host.slots = t.guest.slots /\ \A c \in Components(t) : g[c]]
  PROVE  FlatFits = [t \in Codecs |->
                       t.host.slots = t.guest.slots /\ \A c \in Components(t) : FlatFits[c]]
<1> DEFINE f == CHOOSE f : f = [t \in Codecs |->
                                  t.host.slots = t.guest.slots /\ \A c \in Components(t) : f[c]]
<1>1. f = [t \in Codecs |-> t.host.slots = t.guest.slots /\ \A c \in Components(t) : f[c]]
  OBVIOUS
<1>2. FlatFits = f
  BY DEF FlatFits
<1> QED
  BY <1>1, <1>2

\* The flat forms of all codecs and their components are as wide as the canonical ones.
LEMMA AllFlatFit == \A t \in Codecs : FlatFits[t]
<1>1. PICK g : g = [t \in Codecs |-> TRUE]
  OBVIOUS
<1>2. ASSUME NEW t \in Codecs
      PROVE  t.host.slots = t.guest.slots /\ \A c \in Components(t) : g[c]
  <2>1. t.host.slots = t.guest.slots
    BY CodecsSound DEF Sound
  <2>2. Components(t) \subseteq Codecs
    BY Parts
  <2>3. \A c \in Codecs : g[c]
    BY <1>1, Zenon
  <2> QED
    BY <2>1, <2>2, <2>3, Zenon
<1>3. g = [t \in Codecs |-> t.host.slots = t.guest.slots /\ \A c \in Components(t) : g[c]]
  BY <1>1, <1>2, Zenon
<1>4. \A t \in Codecs :
         FlatFits[t] = (t.host.slots = t.guest.slots /\ \A c \in Components(t) : FlatFits[c])
  BY <1>3, FlatFix, Zenon
<1>5. PICK S : S = {t \in Codecs : FlatFits[t]}
  OBVIOUS
<1>6. \A t \in Codecs : Components(t) \subseteq S => t \in S
  BY <1>2, <1>4, <1>5, Zenon
<1>7. Codecs \subseteq S
  BY <1>6, CodecInduction
<1> QED
  BY <1>5, <1>7, Zenon

\* The flat form of every function's result is as wide as the canonical one.
THEOREM FlatFormsAlwaysFit == Spec => []FlatFormsFit
<1>1. IInv => FlatFormsFit
  <2> SUFFICES ASSUME IInv, phase = "answered" PROVE FlatFits[Codec.result]
    BY DEF FlatFormsFit
  <2>1. SoundFunc(Codec)
    BY CodecIs DEF IInv
  <2>2. Codec.result \in Codecs
    BY <2>1 DEF SoundFunc
  <2> QED
    BY <2>2, AllFlatFit, Zenon
<1> QED
  BY <1>1, Invariant, PTL
=============================================================================
