------------------------------ MODULE DyldProofs ------------------------------
(***************************************************************************)
(* The dynamic loader, for every set of libraries and NEEDED relation.  The*)
(* invariant relates refCount to the handles and NEEDED lists that hold    *)
(* references, says how the loads in progress are linked, and where        *)
(* neededDeps can be non-empty; the NEEDED loop's position is there because*)
(* an entry collected must be a new one for the count to grow by one.  From*)
(* it: nothing in use is closed, what a library needs and what its imports *)
(* are bound to stay with it, and, since references run in no circle,      *)
(* closing the last handle unloads everything.                             *)
(***************************************************************************)
EXTENDS Dyld, FiniteSetTheorems, TLAPS

Active(l) == stage[l] # "none"

Types ==
  /\ preloaded \subseteq Libs /\ registry \subseteq Libs /\ closing \subseteq Libs
  /\ refs \in [Libs -> Nat] /\ lost \in [Libs -> Nat]
  /\ deps \in [Libs -> SUBSET Nat] /\ \A l \in Libs : deps[l] \subseteq DOMAIN Needed[l]
  /\ handle \in [HandleIds -> Libs \union {None}]
  /\ stage \in [Libs -> Stages] /\ next \in [Libs -> Nat \ {0}]
  /\ below \in [Libs -> Libs \union {None}] /\ slot \in [Libs -> HandleIds \union {None}]
  /\ top \in Libs \union {None}
  /\ failed \in BOOLEAN

\* The loads in progress form a list that starts at top.
Linked ==
  /\ top # None => Active(top)
  /\ \A l \in Libs : Active(l) =>
       /\ l \notin registry \union preloaded
       /\ top # None => below[l] # top
       /\ below[l] # None => Active(below[l])
       /\ \A m \in Libs : Active(m) /\ below[m] = below[l] /\ below[l] # None => m = l
       /\ slot[l] = None => /\ below[l] # None /\ stage[below[l]] = "needed"
                            /\ next[below[l]] \in DOMAIN Needed[below[l]]
                            /\ Needed[below[l]][next[below[l]]] = l
  /\ failed => top # None /\ stage[top] = "needed"

\* A NEEDED list is non-empty only for a library that is loaded, being loaded
\* or being closed, and covers only entries the loop has passed.
Collected ==
  /\ \A l \in Libs : deps[l] # {} => l \in registry \union closing \/ Active(l)
  /\ \A l \in Libs : Active(l) => \A i \in deps[l] : i < next[l]
  /\ \A l \in Libs : stage[l] = "read" => deps[l] = {}

\* The references that count.
HandlesHeld(c) == IF c \in preloaded THEN 0 ELSE Cardinality(HandlesTo(c))
Counted ==
  \A c \in Libs :
    /\ refs[c] = HandlesHeld(c) + Cardinality(EdgesTo(c)) + lost[c]
    /\ refs[c] > 0 <=> c \in registry
    /\ c \in preloaded => c \notin registry

\* A load called by the guest waits for a handle nobody else has or waits for.
Slots ==
  \A l \in Libs : slot[l] # None =>
    /\ handle[slot[l]] = None
    /\ \A m \in Libs : slot[m] = slot[l] => m = l

\* libc and its family are never referenced.
Targets == \A l \in Libs : \A i \in deps[l] : Needed[l][i] \in Libs

Core == Types /\ Linked /\ Collected /\ Counted
IInv == Core /\ Slots /\ Targets

-----------------------------------------------------------------------------
(* Counting.                                                               *)

LEMMA PositionsFinite == IsFiniteSet(Positions)
<1> DEFINE f == [l \in Libs |-> DOMAIN Needed[l]]
           T == {DOMAIN Needed[l] : l \in Libs}
<1>1. f \in Surjection(Libs, T)
  BY DEF Surjection
<1>2. IsFiniteSet(T)
  BY <1>1, FS_Surjection, LibsAssumption, Zenon
<1>3. ASSUME NEW S \in T PROVE IsFiniteSet(S)
  <2>1. PICK l \in Libs : S = DOMAIN Needed[l]
    OBVIOUS
  <2>2. Needed[l] \in Seq(Libs \union MainSatisfied)
    BY NeededAssumption
  <2>3. S = 1..Len(Needed[l]) /\ Len(Needed[l]) \in Nat
    BY <2>1, <2>2
  <2> QED
    BY <2>3, FS_Interval
<1> QED
  BY <1>2, <1>3, FS_UNION, Zenon DEF Positions

LEMMA OneLess ==
  ASSUME NEW S, IsFiniteSet(S), NEW x \in S
  PROVE  Cardinality(S \ {x}) = Cardinality(S) - 1
BY FS_RemoveElement

LEMMA HeldFinite ==
  ASSUME NEW c
  PROVE  /\ IsFiniteSet(HandlesTo(c)) /\ Cardinality(HandlesTo(c)) \in Nat
         /\ IsFiniteSet(EdgesTo(c)) /\ Cardinality(EdgesTo(c)) \in Nat
<1>1. IsFiniteSet(HandlesTo(c))
  BY HandlesAssumption, FS_Subset DEF HandlesTo
<1>2. IsFiniteSet(Libs \X Positions)
  BY LibsAssumption, PositionsFinite, FS_Product
<1>3. IsFiniteSet(EdgesTo(c))
  BY <1>2, FS_Subset DEF EdgesTo
<1> QED
  BY <1>1, <1>3, FS_CardinalityType

\* Something refers to c exactly when a count is positive.
LEMMA CountPositive ==
  ASSUME NEW c
  PROVE  /\ HandlesTo(c) # {} => Cardinality(HandlesTo(c)) > 0
         /\ EdgesTo(c) # {} => Cardinality(EdgesTo(c)) > 0
BY HeldFinite, FS_EmptySet

\* Filling a free slot of LIBS, and emptying one.
LEMMA HandleOpens ==
  ASSUME NEW h \in HandleIds, NEW l \in Libs, NEW c \in Libs,
         handle \in [HandleIds -> Libs \union {None}],
         handle[h] = None, handle' = [handle EXCEPT ![h] = l]
  PROVE  Cardinality(HandlesTo(c))' =
           Cardinality(HandlesTo(c)) + (IF c = l THEN 1 ELSE 0)
<1>1. CASE c = l
  <2>1. HandlesTo(c)' = HandlesTo(c) \union {h} /\ h \notin HandlesTo(c)
    BY <1>1, NoneAssumption DEF HandlesTo
  <2> QED
    BY <1>1, <2>1, HeldFinite, FS_AddElement
<1>2. CASE c # l
  <2>1. HandlesTo(c)' = HandlesTo(c)
    BY <1>2, NoneAssumption DEF HandlesTo
  <2>2. Cardinality(HandlesTo(c))' = Cardinality(HandlesTo(c))
    BY <2>1
  <2> QED
    BY <1>2, <2>2, HeldFinite
<1> QED
  BY <1>1, <1>2

LEMMA HandleCloses ==
  ASSUME NEW h \in HandleIds, NEW c \in Libs,
         handle \in [HandleIds -> Libs \union {None}],
         handle[h] # None, handle' = [handle EXCEPT ![h] = None]
  PROVE  Cardinality(HandlesTo(c))' =
           Cardinality(HandlesTo(c)) - (IF c = handle[h] THEN 1 ELSE 0)
<1>1. CASE c = handle[h]
  <2>1. HandlesTo(c)' = HandlesTo(c) \ {h} /\ h \in HandlesTo(c)
    BY <1>1, NoneAssumption DEF HandlesTo
  <2> QED
    BY <1>1, <2>1, HeldFinite, FS_RemoveElement
<1>2. CASE c # handle[h]
  <2>1. HandlesTo(c)' = HandlesTo(c)
    BY <1>2, NoneAssumption DEF HandlesTo
  <2>2. Cardinality(HandlesTo(c))' = Cardinality(HandlesTo(c))
    BY <2>1
  <2> QED
    BY <1>2, <2>2, HeldFinite
<1> QED
  BY <1>1, <1>2

\* Collecting a NEEDED entry, and releasing one.
LEMMA EdgeAdded ==
  ASSUME NEW l \in Libs, NEW i \in DOMAIN Needed[l], NEW c \in Libs,
         deps \in [Libs -> SUBSET Nat], i \notin deps[l],
         deps' = [deps EXCEPT ![l] = @ \union {i}]
  PROVE  Cardinality(EdgesTo(c))' =
           Cardinality(EdgesTo(c)) + (IF c = Needed[l][i] THEN 1 ELSE 0)
<1>0. i \in Positions
  BY DEF Positions
<1>1. CASE c = Needed[l][i]
  <2>1. EdgesTo(c)' = EdgesTo(c) \union {<<l, i>>}
    BY <1>0, <1>1 DEF EdgesTo
  <2>2. <<l, i>> \notin EdgesTo(c)
    BY DEF EdgesTo
  <2> QED
    BY <1>1, <2>1, <2>2, HeldFinite, FS_AddElement
<1>2. CASE c # Needed[l][i]
  <2>1. EdgesTo(c)' = EdgesTo(c)
    BY <1>2 DEF EdgesTo
  <2>2. Cardinality(EdgesTo(c))' = Cardinality(EdgesTo(c))
    BY <2>1
  <2> QED
    BY <1>2, <2>2, HeldFinite
<1> QED
  BY <1>1, <1>2

LEMMA EdgeRemoved ==
  ASSUME NEW l \in Libs, NEW i \in DOMAIN Needed[l], NEW c \in Libs,
         deps \in [Libs -> SUBSET Nat], i \in deps[l],
         deps' = [deps EXCEPT ![l] = @ \ {i}]
  PROVE  Cardinality(EdgesTo(c))' =
           Cardinality(EdgesTo(c)) - (IF c = Needed[l][i] THEN 1 ELSE 0)
<1>0. i \in Positions
  BY DEF Positions
<1>1. CASE c = Needed[l][i]
  <2>1. EdgesTo(c)' = EdgesTo(c) \ {<<l, i>>}
    BY <1>0, <1>1 DEF EdgesTo
  <2>2. <<l, i>> \in EdgesTo(c)
    BY <1>0, <1>1 DEF EdgesTo
  <2>3. Cardinality(EdgesTo(c) \ {<<l, i>>}) = Cardinality(EdgesTo(c)) - 1
    BY <2>2, HeldFinite, OneLess
  <2> QED
    BY <1>1, <2>1, <2>3
<1>2. CASE c # Needed[l][i]
  <2>1. EdgesTo(c)' = EdgesTo(c)
    BY <1>2 DEF EdgesTo
  <2>2. Cardinality(EdgesTo(c))' = Cardinality(EdgesTo(c))
    BY <2>1
  <2> QED
    BY <1>2, <2>2, HeldFinite
<1> QED
  BY <1>1, <1>2

\* Forgetting a whole NEEDED list.
LEMMA EdgesForgotten ==
  ASSUME NEW l \in Libs, NEW c \in Libs, deps \in [Libs -> SUBSET Nat],
         deps' = [deps EXCEPT ![l] = {}]
  PROVE  Cardinality(EdgesTo(c)) =
           Cardinality(EdgesTo(c))' + Cardinality({e \in EdgesTo(c) : e[1] = l})
<1> DEFINE gone == {e \in EdgesTo(c) : e[1] = l}
<1>1. EdgesTo(c)' = EdgesTo(c) \ gone
  BY DEF EdgesTo
<1>2. EdgesTo(c) \intersect gone = gone /\ IsFiniteSet(gone)
  BY HeldFinite, FS_Subset
<1>3. Cardinality(EdgesTo(c) \ gone) = Cardinality(EdgesTo(c)) - Cardinality(gone)
  BY <1>2, HeldFinite, FS_Difference
<1>4. Cardinality(gone) \in Nat
  BY <1>2, FS_CardinalityType
<1>5. Cardinality(EdgesTo(c))' = Cardinality(EdgesTo(c) \ gone)
  BY <1>1
<1> HIDE DEF gone
<1>6. Cardinality(EdgesTo(c)) = Cardinality(EdgesTo(c))' + Cardinality(gone)
  BY <1>3, <1>4, <1>5, HeldFinite
<1> QED
  BY <1>6 DEF gone

-----------------------------------------------------------------------------
(* Parts of steps.                                                         *)

LEMMA CountedSame ==
  ASSUME Counted, UNCHANGED <<handle, deps, preloaded, refs, lost, registry>>
  PROVE  Counted'
<1>1. ASSUME NEW c
      PROVE  /\ Cardinality(HandlesTo(c))' = Cardinality(HandlesTo(c))
             /\ Cardinality(EdgesTo(c))' = Cardinality(EdgesTo(c))
  <2>1. HandlesTo(c)' = HandlesTo(c) /\ EdgesTo(c)' = EdgesTo(c)
    BY DEF HandlesTo, EdgesTo
  <2> QED
    BY <2>1
<1> QED
  BY <1>1 DEF Counted, HandlesHeld

\* A load begins: from the guest (h is a handle) or for a NEEDED entry.
LEMMA BeginLinked ==
  ASSUME Types, Linked, Collected,
         NEW l \in Libs, NEW h \in HandleIds \union {None},
         Begin(l, h), ~Active(l), l \notin registry \union preloaded, closing = {},
         h = None => /\ top # None /\ stage[top] = "needed"
                     /\ next[top] \in DOMAIN Needed[top] /\ Needed[top][next[top]] = l,
         ~failed, UNCHANGED <<registry, preloaded, deps, closing, failed>>
  PROVE  Linked' /\ Collected'
<1> USE DEF Active
<1>1. /\ stage' = [stage EXCEPT ![l] = "read"] /\ next' = [next EXCEPT ![l] = 1]
      /\ below' = [below EXCEPT ![l] = top] /\ slot' = [slot EXCEPT ![l] = h]
      /\ top' = l /\ top # l
  BY NoneAssumption DEF Begin, Linked
<1>2. \A m \in Libs : Active(m) =>
        /\ m # l /\ below[m] # l
        /\ slot[m] = None => below[m] \in Libs
  BY NoneAssumption DEF Types, Linked
<1>3. ASSUME NEW m \in Libs, Active(m)'
      PROVE  /\ m \notin registry \union preloaded
             /\ below'[m] # l
             /\ below'[m] # None => Active(below[m])'
             /\ \A k \in Libs : Active(k)' /\ below'[k] = below'[m] /\ below'[m] # None => k = m
             /\ slot'[m] = None => /\ below'[m] # None /\ stage'[below'[m]] = "needed"
                                   /\ next'[below'[m]] \in DOMAIN Needed[below'[m]]
                                   /\ Needed[below'[m]][next'[below'[m]]] = m
  <2>1. CASE m = l
    <3>1. below'[m] = top /\ slot'[m] = h
      BY <1>1, <2>1 DEF Types
    <3>2. top # None => top \in Libs /\ Active(top) /\ stage'[top] = stage[top] /\ next'[top] = next[top]
      BY <1>1 DEF Types, Linked
    <3>3. ASSUME NEW k \in Libs, Active(k)', below'[k] = top, top # None PROVE k = l
      <4>1. SUFFICES ASSUME k # l PROVE FALSE
        OBVIOUS
      <4>2. Active(k) /\ below[k] = top
        BY <1>1, <3>3, <4>1 DEF Types
      <4> QED
        BY <3>3, <4>2 DEF Linked
    <3> QED
      BY <1>1, <2>1, <3>1, <3>2, <3>3
  <2>2. CASE m # l
    <3>1. Active(m) /\ below'[m] = below[m] /\ slot'[m] = slot[m]
      BY <1>1, <1>3, <2>2 DEF Types
    <3>2. /\ below[m] # l
          /\ below[m] # None => /\ Active(below[m])' /\ next'[below[m]] = next[below[m]]
                                /\ stage'[below[m]] = stage[below[m]]
      BY <1>1, <1>2, <3>1 DEF Types, Linked
    <3>3. top # None => below[m] # top
      BY <3>1 DEF Linked
    <3>4. ASSUME NEW k \in Libs, Active(k)', below'[k] = below[m], below[m] # None PROVE k = m
      <4>1. CASE k = l
        BY <1>1, <3>3, <3>4, <4>1 DEF Types
      <4>2. CASE k # l
        BY <1>1, <3>1, <3>4, <4>2 DEF Types, Linked
      <4> QED
        BY <4>1, <4>2
    <3>5. slot[m] = None => /\ below[m] # None /\ stage[below[m]] = "needed"
                           /\ next[below[m]] \in DOMAIN Needed[below[m]]
                           /\ Needed[below[m]][next[below[m]]] = m
      BY <3>1 DEF Linked
    <3>6. m \notin registry \union preloaded
      BY <3>1 DEF Linked
    <3> QED
      BY <3>1, <3>2, <3>4, <3>5, <3>6
  <2> QED
    BY <2>1, <2>2
<1>4. Linked'
  BY <1>1, <1>3 DEF Linked, Types
<1>5. deps[l] = {}
  BY DEF Collected
<1>6. Collected'
  BY <1>1, <1>5 DEF Collected, Types
<1> QED
  BY <1>4, <1>6

\* The innermost load leaves the list, possibly handing its parent an error or
\* moving its parent on.
LEMMA PopLinked ==
  ASSUME Types, Linked, top # None,
         stage' = [stage EXCEPT ![top] = "none"], below' = [below EXCEPT ![top] = None],
         slot' = [slot EXCEPT ![top] = None], top' = below[top],
         \A m \in Libs \ {top, below[top]} : next'[m] = next[m],
         registry' \subseteq registry \union {top}, UNCHANGED preloaded,
         failed' => slot[top] = None
  PROVE  Linked'
<1> USE DEF Active
<1>1. top \in Libs /\ Active(top)
  BY DEF Types, Linked
<1>2. below[top] # None => Active(below[top]) /\ below[top] # top
  BY <1>1 DEF Linked
<1>3. ASSUME NEW m \in Libs, Active(m)'
      PROVE  /\ m # top /\ Active(m) /\ below'[m] = below[m] /\ slot'[m] = slot[m]
             /\ below[m] # top
  BY <1>1, <1>3 DEF Types, Linked
<1>4. ASSUME NEW m \in Libs, m # top
      PROVE  stage'[m] = stage[m]
  BY <1>1, <1>4 DEF Types
<1>5. ASSUME NEW m \in Libs, Active(m)'
      PROVE  /\ m \notin registry' \union preloaded'
             /\ top' # None => below'[m] # top'
             /\ below'[m] # None => Active(below[m])'
             /\ \A k \in Libs : Active(k)' /\ below'[k] = below'[m] /\ below'[m] # None => k = m
             /\ slot'[m] = None => /\ below'[m] # None /\ stage'[below'[m]] = "needed"
                                   /\ next'[below'[m]] \in DOMAIN Needed[below'[m]]
                                   /\ Needed[below'[m]][next'[below'[m]]] = m
  <2>1. /\ m # top /\ Active(m) /\ below'[m] = below[m] /\ slot'[m] = slot[m]
        /\ below[m] # top
    BY <1>3, <1>5
  <2>2. below[m] # None => below[m] \in Libs
    BY DEF Types
  <2>3. m \notin registry' \union preloaded'
    BY <2>1 DEF Linked
  <2>4. below[top] # None => below[m] # below[top]
    BY <1>1, <2>1 DEF Linked
  <2>5. below'[m] # None => Active(below[m])'
    <3>1. below[m] # None => Active(below[m])
      BY <2>1 DEF Linked
    <3> QED
      BY <1>4, <2>1, <2>2, <3>1
  <2>6. \A k \in Libs : Active(k)' /\ below'[k] = below'[m] /\ below'[m] # None => k = m
    BY <1>3, <2>1 DEF Linked
  <2>7. slot[m] = None => /\ below[m] # None /\ stage[below[m]] = "needed"
                         /\ next[below[m]] \in DOMAIN Needed[below[m]]
                         /\ Needed[below[m]][next[below[m]]] = m
    BY <2>1 DEF Linked
  <2>8. below[m] # None => next'[below[m]] = next[below[m]] /\ stage'[below[m]] = stage[below[m]]
    BY <1>4, <2>1, <2>2, <2>4
  <2>9. slot'[m] = None => /\ below'[m] # None /\ stage'[below'[m]] = "needed"
                          /\ next'[below'[m]] \in DOMAIN Needed[below'[m]]
                          /\ Needed[below'[m]][next'[below'[m]]] = m
    BY <2>1, <2>7, <2>8
  <2> QED
    BY <2>1, <2>3, <2>4, <2>5, <2>6, <2>9
<1>6. below[top] # None => below[top] \in Libs /\ stage'[below[top]] = stage[below[top]]
  BY <1>1, <1>2, <1>4 DEF Types
<1>7. top' # None => Active(top)'
  BY <1>1, <1>2, <1>6
<1>8. slot[top] = None => below[top] # None /\ stage[below[top]] = "needed"
  BY <1>1 DEF Linked
<1>9. failed' => top' # None /\ stage'[top'] = "needed"
  BY <1>1, <1>6, <1>8
<1> QED
  BY <1>5, <1>7, <1>9 DEF Linked

\* The innermost load moves on.
LEMMA TopMoves ==
  ASSUME Types, Linked, top # None, ~failed', Active(top)',
         \A m \in Libs \ {top} : stage'[m] = stage[m] /\ next'[m] = next[m],
         UNCHANGED <<below, slot, top, registry, preloaded>>
  PROVE  Linked'
<1> USE DEF Active
<1>1. ASSUME NEW m \in Libs, Active(m)'
      PROVE  /\ m \notin registry \union preloaded
             /\ below[m] # top
             /\ below[m] # None => Active(below[m])'
             /\ \A k \in Libs : Active(k)' /\ below[k] = below[m] /\ below[m] # None => k = m
             /\ slot[m] = None => /\ below[m] # None /\ stage'[below[m]] = "needed"
                                  /\ next'[below[m]] \in DOMAIN Needed[below[m]]
                                  /\ Needed[below[m]][next'[below[m]]] = m
  <2>1. \A k \in Libs : Active(k)' => Active(k)
    BY DEF Linked
  <2>2. below[m] # top /\ m \notin registry \union preloaded
    BY <1>1, <2>1 DEF Linked
  <2>3. below[m] # None => /\ below[m] \in Libs \ {top} /\ Active(below[m])
                          /\ stage'[below[m]] = stage[below[m]]
                          /\ next'[below[m]] = next[below[m]]
    BY <1>1, <2>1, <2>2 DEF Types, Linked
  <2>4. \A k \in Libs : Active(k)' /\ below[k] = below[m] /\ below[m] # None => k = m
    BY <1>1, <2>1 DEF Linked
  <2>5. slot[m] = None => /\ below[m] # None /\ stage[below[m]] = "needed"
                         /\ next[below[m]] \in DOMAIN Needed[below[m]]
                         /\ Needed[below[m]][next[below[m]]] = m
    BY <1>1, <2>1 DEF Linked
  <2> QED
    BY <2>2, <2>3, <2>4, <2>5
<1> QED
  BY <1>1 DEF Linked

-----------------------------------------------------------------------------
(* One step.                                                               *)

LEMMA RegistryStep == ASSUME Core, SetLibraries PROVE Core'
<1> USE DEF Core
<1>1. /\ registry = {} /\ preloaded' = Composed
      /\ \A h \in HandleIds : handle[h] = None
      /\ \A l \in Libs : ~Active(l)
      /\ UNCHANGED <<registry, refs, deps, handle, stage, next, below, slot, top,
                     closing, failed, lost>>
  BY DEF SetLibraries, entry, frame, Active
<1>2. Types'
  BY <1>1, ComposedAssumption DEF Types
<1>3. Linked'
  BY <1>1 DEF Linked, Active
<1>4. Collected'
  BY <1>1 DEF Collected, Active
<1>5. ASSUME NEW c \in Libs
      PROVE  /\ refs'[c] = HandlesHeld(c)' + Cardinality(EdgesTo(c))' + lost'[c]
             /\ refs'[c] > 0 <=> c \in registry'
  <2>1. refs[c] = 0 /\ lost[c] \in Nat
    BY <1>1 DEF Counted, Types
  <2>2. Cardinality(HandlesTo(c)) = 0
    <3>1. HandlesTo(c) = {}
      BY <1>1, NoneAssumption DEF HandlesTo
    <3> QED
      BY <3>1, FS_EmptySet
  <2>3. Cardinality(HandlesTo(c))' = 0 /\ Cardinality(EdgesTo(c))' = Cardinality(EdgesTo(c))
    <3>1. HandlesTo(c)' = HandlesTo(c) /\ EdgesTo(c)' = EdgesTo(c)
      BY <1>1 DEF HandlesTo, EdgesTo
    <3> QED
      BY <2>2, <3>1
  <2>4. HandlesHeld(c) = 0 /\ HandlesHeld(c)' = 0
    BY <2>2, <2>3 DEF HandlesHeld
  <2>5. refs[c] = HandlesHeld(c) + Cardinality(EdgesTo(c)) + lost[c]
    BY DEF Counted
  <2> QED
    BY <1>1, <2>1, <2>3, <2>4, <2>5, HeldFinite
<1>6. Counted'
  BY <1>1, <1>5 DEF Counted
<1> QED
  BY <1>2, <1>3, <1>4, <1>6

LEMMA LoadStep ==
  ASSUME Core, NEW l \in Libs, NEW h \in HandleIds, Load(l, h)
  PROVE  Core'
<1> USE DEF Core
<1>1. /\ ~Active(l) /\ handle[h] = None /\ closing = {} /\ ~failed
      /\ UNCHANGED <<preloaded, closing, failed, lost>>
  BY DEF Load, GuestRuns, Active
<1>2. CASE l \in registry \union preloaded
  <2>1. /\ handle' = [handle EXCEPT ![h] = l]
        /\ refs' = IF l \in registry THEN [refs EXCEPT ![l] = @ + 1] ELSE refs
        /\ UNCHANGED <<registry, deps, stage, next, below, slot, top>>
    BY <1>2 DEF Load, frame
  <2>2. Types'
    BY <1>1, <2>1 DEF Types
  <2>3. Linked' /\ Collected'
    BY <1>1, <2>1 DEF Linked, Collected, Active
  <2>4. ASSUME NEW c \in Libs
        PROVE  /\ refs'[c] = HandlesHeld(c)' + Cardinality(EdgesTo(c))' + lost'[c]
               /\ refs'[c] > 0 <=> c \in registry'
    <3>1. Cardinality(HandlesTo(c))' = Cardinality(HandlesTo(c)) + (IF c = l THEN 1 ELSE 0)
      BY <1>1, <2>1, HandleOpens DEF Types
    <3>2. Cardinality(EdgesTo(c))' = Cardinality(EdgesTo(c))
      <4>1. EdgesTo(c)' = EdgesTo(c)
        BY <2>1 DEF EdgesTo
      <4> QED
        BY <4>1
    <3>3. /\ refs[c] = HandlesHeld(c) + Cardinality(EdgesTo(c)) + lost[c]
          /\ refs[c] > 0 <=> c \in registry
          /\ c \in preloaded => c \notin registry
      BY DEF Counted
    <3>4. refs'[c] = refs[c] + (IF c = l /\ l \in registry THEN 1 ELSE 0)
      BY <2>1 DEF Types
    <3>5. refs[c] \in Nat /\ lost[c] \in Nat
      BY DEF Types
    <3> QED
      BY <1>1, <1>2, <2>1, <3>1, <3>2, <3>3, <3>4, <3>5, HeldFinite DEF HandlesHeld
  <2>5. Counted'
    BY <1>1, <2>1, <2>4 DEF Counted
  <2> QED
    BY <2>2, <2>3, <2>5
<1>3. CASE l \notin registry \union preloaded
  <2>1. /\ Begin(l, h)
        /\ UNCHANGED <<registry, refs, deps, handle>>
    BY <1>3 DEF Load, entry
  <2>2. Types'
    BY <1>1, <2>1 DEF Types, Begin, Stages
  <2>3. Linked' /\ Collected'
    BY <1>1, <1>3, <2>1, BeginLinked, NoneAssumption
  <2>4. Counted'
    BY <1>1, <2>1, CountedSame
  <2> QED
    BY <2>2, <2>3, <2>4
<1> QED
  BY <1>2, <1>3

\* A load returns an error: from the read, or with its references to give back.
LEMMA FailStep ==
  ASSUME Core, top # None, Fail,
         deps[top] # {} => closing' = {top}, closing' = closing \/ closing' = {top}, closing = {},
         UNCHANGED <<preloaded, registry, refs, deps, handle, lost>>
  PROVE  Core'
<1> USE DEF Core
<1>1. /\ stage' = [stage EXCEPT ![top] = "none"] /\ next' = [next EXCEPT ![top] = 1]
      /\ below' = [below EXCEPT ![top] = None] /\ slot' = [slot EXCEPT ![top] = None]
      /\ top' = below[top] /\ failed' = (slot[top] = None)
  BY DEF Fail, Pop
<1>2. top \in Libs
  BY DEF Types
<1>3. Types'
  BY <1>1, <1>2 DEF Types, Stages
<1>4. Linked'
  <2>1. \A m \in Libs \ {top, below[top]} : next'[m] = next[m]
    BY <1>1 DEF Types
  <2> QED
    BY <1>1, <2>1, PopLinked
<1>5. Collected'
  <2>1. ASSUME NEW l \in Libs, deps'[l] # {}
        PROVE  l \in registry' \union closing' \/ Active(l)'
    BY <1>1, <1>2, <2>1 DEF Collected, Active, Types
  <2>2. ASSUME NEW l \in Libs, Active(l)', NEW i \in deps'[l]
        PROVE  i < next'[l]
    BY <1>1, <1>2, <2>2 DEF Collected, Active, Types
  <2>3. ASSUME NEW l \in Libs, stage'[l] = "read"
        PROVE  deps'[l] = {}
    BY <1>1, <1>2, <2>3 DEF Collected, Types
  <2> QED
    BY <2>1, <2>2, <2>3 DEF Collected
<1>6. Counted'
  BY CountedSame
<1> QED
  BY <1>3, <1>4, <1>5, <1>6

LEMMA ReadFailsStep == ASSUME Core, ReadFails PROVE Core'
<1>1. /\ top # None /\ stage[top] = "read" /\ closing = {} /\ Fail /\ closing' = closing
      /\ UNCHANGED <<preloaded, registry, refs, deps, handle, lost>>
  BY DEF ReadFails, LoaderRuns, entry
<1>2. deps[top] = {}
  BY <1>1 DEF Core, Types, Collected
<1> QED
  BY <1>1, <1>2, FailStep

LEMMA RollBackStep ==
  ASSUME Core, top # None, closing = {}, RollBack
  PROVE  Core'
BY FailStep DEF RollBack, entry

LEMMA NeededFailsStep == ASSUME Core, NeededFails PROVE Core'
<1>1. top # None
  BY DEF Core, Linked, NeededFails
<1> QED
  BY <1>1, RollBackStep DEF NeededFails

LEMMA CycleStep == ASSUME Core, Cycle PROVE Core'
BY RollBackStep DEF Cycle, Unknown, MoreNeeded, LoaderRuns

\* Steps that only move the innermost load on.
LEMMA MoveStep ==
  ASSUME Core, top # None, ~failed,
         stage' \in [Libs -> Stages], next' \in [Libs -> Nat \ {0}],
         \A m \in Libs \ {top} : stage'[m] = stage[m] /\ next'[m] = next[m],
         stage'[top] \notin {"none", "read"}, next[top] <= next'[top],
         UNCHANGED <<preloaded, registry, refs, deps, handle, below, slot, top, closing,
                     failed, lost>>
  PROVE  Core'
<1> USE DEF Core
<1>1. Types'
  BY DEF Types
<1>2. Active(top) /\ Active(top)' /\ top \in Libs
  BY DEF Linked, Active, Types
<1>3. Linked'
  BY <1>2, TopMoves
<1>4. Collected'
  <2>1. ASSUME NEW l \in Libs, deps'[l] # {}
        PROVE  l \in registry' \union closing' \/ Active(l)'
    BY <1>2, <2>1 DEF Collected, Active
  <2>2. ASSUME NEW l \in Libs, Active(l)', NEW i \in deps'[l]
        PROVE  i < next'[l]
    <3>1. Active(l)
      BY <1>2, <2>2 DEF Active
    <3>2. i \in Nat /\ next[l] \in Nat /\ next'[l] \in Nat /\ i < next[l]
      BY <2>2, <3>1 DEF Collected, Types
    <3>3. next[l] <= next'[l]
      BY <3>2
    <3> QED
      BY <3>2, <3>3
  <2>3. ASSUME NEW l \in Libs, stage'[l] = "read"
        PROVE  deps'[l] = {}
    BY <2>3 DEF Collected
  <2> QED
    BY <2>1, <2>2, <2>3 DEF Collected
<1>5. Counted'
  BY CountedSame
<1> QED
  BY <1>1, <1>3, <1>4, <1>5

LEMMA MovesStep ==
  ASSUME Core, Allocate \/ SkipNeeded \/ NeededDone \/ Instantiate
  PROVE  Core'
<1>1. /\ top # None /\ ~failed /\ top \in Libs
      /\ stage \in [Libs -> Stages] /\ next \in [Libs -> Nat \ {0}]
  BY DEF Allocate, SkipNeeded, NeededDone, Instantiate, MoreNeeded, LoaderRuns, Core, Types
<1>2. CASE Allocate \/ NeededDone \/ Instantiate
  <2>1. PICK s \in {"needed", "build", "ctors"} : stage' = [stage EXCEPT ![top] = s]
    BY <1>2 DEF Allocate, NeededDone, Instantiate
  <2>2. UNCHANGED <<preloaded, registry, refs, deps, handle, next, below, slot, top, closing,
                    failed, lost>>
    BY <1>2 DEF Allocate, NeededDone, Instantiate, entry
  <2>3. stage' \in [Libs -> Stages] /\ stage'[top] = s
    BY <1>1, <2>1 DEF Stages
  <2>4. \A m \in Libs \ {top} : stage'[m] = stage[m] /\ next'[m] = next[m]
    BY <1>1, <2>1, <2>2
  <2>5. next[top] <= next'[top]
    BY <1>1, <2>2
  <2> QED
    BY <1>1, <2>1, <2>2, <2>3, <2>4, <2>5, MoveStep
<1>3. CASE SkipNeeded
  <2>1. /\ next' = [next EXCEPT ![top] = @ + 1] /\ stage[top] = "needed"
        /\ UNCHANGED <<preloaded, registry, refs, deps, handle, stage, below, slot, top, closing,
                       failed, lost>>
    BY <1>3 DEF SkipNeeded, MoreNeeded, LoaderRuns, Advance, entry
  <2>2. next' \in [Libs -> Nat \ {0}] /\ next[top] <= next'[top]
    BY <1>1, <2>1
  <2>3. \A m \in Libs \ {top} : stage'[m] = stage[m] /\ next'[m] = next[m]
    BY <1>1, <2>1
  <2> QED
    BY <1>1, <2>1, <2>2, <2>3, MoveStep
<1> QED
  BY <1>2, <1>3

LEMMA ShareNeededStep == ASSUME Core, ShareNeeded PROVE Core'
<1> USE DEF Core
<1> DEFINE i == next[top]
           dep == Needed[top][next[top]]
<1>1. /\ top \in Libs /\ ~failed /\ stage[top] = "needed" /\ i <= Len(Needed[top])
      /\ dep \in registry /\ dep \in Libs
      /\ refs' = [refs EXCEPT ![dep] = @ + 1]
      /\ deps' = [deps EXCEPT ![top] = @ \union {i}]
      /\ next' = [next EXCEPT ![top] = @ + 1]
      /\ UNCHANGED <<preloaded, registry, handle, stage, below, slot, top, closing, failed, lost>>
  BY DEF ShareNeeded, MoreNeeded, LoaderRuns, NeededEntry, Advance, Types
<1>2. i \in DOMAIN Needed[top] /\ i \in Nat
  <2>1. Needed[top] \in Seq(Libs \union MainSatisfied)
    BY <1>1, NeededAssumption
  <2> QED
    BY <1>1, <2>1 DEF Types
<1>3. Active(top) /\ i \notin deps[top]
  BY <1>1, <1>2 DEF Collected, Active
<1>4. Types'
  <2>1. refs' \in [Libs -> Nat] /\ next' \in [Libs -> Nat \ {0}]
    BY <1>1, SMTT(30) DEF Types
  <2>2. deps' \in [Libs -> SUBSET Nat] /\ \A l \in Libs : deps'[l] \subseteq DOMAIN Needed[l]
    BY <1>1, <1>2 DEF Types
  <2> QED
    BY <1>1, <2>1, <2>2 DEF Types
<1>5. Linked'
  <2>1. \A m \in Libs \ {top} : stage'[m] = stage[m] /\ next'[m] = next[m]
    BY <1>1 DEF Types
  <2>2. Active(top)' /\ top # None
    BY <1>1, NoneAssumption DEF Active
  <2> QED
    BY <1>1, <2>1, <2>2, TopMoves
<1>6. Collected'
  <2>1. ASSUME NEW l \in Libs, deps'[l] # {}
        PROVE  l \in registry' \union closing' \/ Active(l)'
    BY <1>1, <1>3, <2>1 DEF Collected, Active, Types
  <2>2. ASSUME NEW l \in Libs, Active(l)', NEW k \in deps'[l]
        PROVE  k < next'[l]
    <3>1. CASE l = top
      <4>1. next'[top] = i + 1 /\ (k = i \/ k \in deps[top])
        BY <1>1, <2>2, <3>1 DEF Types
      <4>2. \A j \in deps[top] : j < i /\ j \in Nat
        BY <1>1, <1>3 DEF Collected, Types
      <4> QED
        BY <1>2, <3>1, <4>1, <4>2
    <3>2. CASE l # top
      BY <1>1, <2>2, <3>2 DEF Collected, Active, Types
    <3> QED
      BY <3>1, <3>2
  <2>3. ASSUME NEW l \in Libs, stage'[l] = "read"
        PROVE  deps'[l] = {}
    BY <1>1, <2>3 DEF Collected, Types
  <2> QED
    BY <2>1, <2>2, <2>3 DEF Collected
<1>7. ASSUME NEW c \in Libs
      PROVE  /\ refs'[c] = HandlesHeld(c)' + Cardinality(EdgesTo(c))' + lost'[c]
             /\ refs'[c] > 0 <=> c \in registry'
             /\ c \in preloaded' => c \notin registry'
  <2>1. Cardinality(EdgesTo(c))' = Cardinality(EdgesTo(c)) + (IF c = dep THEN 1 ELSE 0)
    BY <1>1, <1>2, <1>3, EdgeAdded DEF Types
  <2>2. HandlesHeld(c)' = HandlesHeld(c) /\ HandlesHeld(c) \in Nat
    <3>1. HandlesTo(c)' = HandlesTo(c)
      BY <1>1 DEF HandlesTo
    <3> QED
      BY <1>1, <3>1, HeldFinite DEF HandlesHeld
  <2>3. /\ refs[c] = HandlesHeld(c) + Cardinality(EdgesTo(c)) + lost[c]
        /\ refs[c] > 0 <=> c \in registry
        /\ c \in preloaded => c \notin registry
    BY DEF Counted
  <2>4. refs'[c] = refs[c] + (IF c = dep THEN 1 ELSE 0) /\ refs[c] \in Nat /\ lost[c] \in Nat
    BY <1>1, SMTT(30) DEF Types
  <2> QED
    BY <1>1, <2>1, <2>2, <2>3, <2>4, HeldFinite, SMTT(30)
<1>8. Counted'
  BY <1>7 DEF Counted
<1> QED
  BY <1>4, <1>5, <1>6, <1>8

LEMMA LoadNeededStep == ASSUME Core, LoadNeeded PROVE Core'
<1> USE DEF Core
<1> DEFINE dep == Needed[top][next[top]]
<1>1. /\ top \in Libs /\ ~failed /\ closing = {} /\ stage[top] = "needed"
      /\ next[top] <= Len(Needed[top])
      /\ dep \in Libs /\ dep \notin registry \union preloaded /\ ~Active(dep)
      /\ Begin(dep, None)
      /\ UNCHANGED <<preloaded, registry, refs, deps, handle, closing, failed, lost>>
  BY DEF LoadNeeded, Unknown, MoreNeeded, LoaderRuns, NeededEntry, Types, Active, entry
<1>2. next[top] \in DOMAIN Needed[top]
  <2>1. Needed[top] \in Seq(Libs \union MainSatisfied)
    BY <1>1, NeededAssumption
  <2> QED
    BY <1>1, <2>1 DEF Types
<1>3. top # None
  BY <1>1, NoneAssumption
<1>4. Types'
  BY <1>1 DEF Types, Begin, Stages
<1>5. Linked' /\ Collected'
  BY <1>1, <1>2, <1>3, BeginLinked
<1>6. Counted'
  BY <1>1, CountedSame
<1> QED
  BY <1>4, <1>5, <1>6

LEMMA LateFailsStep == ASSUME Core, LateFails PROVE Core'
<1> USE DEF Core
<1>1. /\ top \in Libs /\ top # None /\ closing = {} /\ Fail
      /\ lost' = [c \in Libs |-> lost[c] + Cardinality({e \in EdgesTo(c) : e[1] = top})]
      /\ deps' = [deps EXCEPT ![top] = {}]
      /\ UNCHANGED <<preloaded, registry, refs, handle, closing>>
  BY DEF LateFails, LoaderRuns, Types
<1>2. /\ stage' = [stage EXCEPT ![top] = "none"] /\ next' = [next EXCEPT ![top] = 1]
      /\ below' = [below EXCEPT ![top] = None] /\ slot' = [slot EXCEPT ![top] = None]
      /\ top' = below[top] /\ failed' = (slot[top] = None)
  BY <1>1 DEF Fail, Pop
<1>3. ASSUME NEW c \in Libs
      PROVE  /\ Cardinality({e \in EdgesTo(c) : e[1] = top}) \in Nat
             /\ Cardinality(EdgesTo(c)) =
                  Cardinality(EdgesTo(c))' + Cardinality({e \in EdgesTo(c) : e[1] = top})
  <2>1. IsFiniteSet({e \in EdgesTo(c) : e[1] = top})
    BY HeldFinite, FS_Subset
  <2>2. Cardinality({e \in EdgesTo(c) : e[1] = top}) \in Nat
    BY <2>1, FS_CardinalityType
  <2> QED
    BY <1>1, <2>2, EdgesForgotten DEF Types
<1>4. Types'
  <2>1. lost' \in [Libs -> Nat]
    <3>1. ASSUME NEW c \in Libs
          PROVE  lost[c] + Cardinality({e \in EdgesTo(c) : e[1] = top}) \in Nat
      <4>1. lost[c] \in Nat
        BY DEF Types
      <4> QED
        BY <1>3, <4>1
    <3> QED
      BY <1>1, <3>1
  <2> QED
    BY <1>1, <1>2, <2>1 DEF Types, Stages
<1>5. Linked'
  <2>1. \A m \in Libs \ {top, below[top]} : next'[m] = next[m]
    BY <1>2 DEF Types
  <2> QED
    BY <1>1, <1>2, <2>1, PopLinked
<1>6. Collected'
  <2>1. ASSUME NEW l \in Libs, deps'[l] # {}
        PROVE  l \in registry' \union closing' \/ Active(l)'
    BY <1>1, <1>2, <2>1 DEF Collected, Active, Types
  <2>2. ASSUME NEW l \in Libs, Active(l)', NEW i \in deps'[l]
        PROVE  i < next'[l]
    BY <1>1, <1>2, <2>2 DEF Collected, Active, Types
  <2>3. ASSUME NEW l \in Libs, stage'[l] = "read"
        PROVE  deps'[l] = {}
    BY <1>1, <1>2, <2>3 DEF Collected, Types
  <2> QED
    BY <2>1, <2>2, <2>3 DEF Collected
<1>7. ASSUME NEW c \in Libs
      PROVE  /\ refs'[c] = HandlesHeld(c)' + Cardinality(EdgesTo(c))' + lost'[c]
             /\ refs'[c] > 0 <=> c \in registry'
             /\ c \in preloaded' => c \notin registry'
  <2> DEFINE gone == Cardinality({e \in EdgesTo(c) : e[1] = top})
  <2>1. HandlesHeld(c)' = HandlesHeld(c) /\ HandlesHeld(c) \in Nat
    <3>1. HandlesTo(c)' = HandlesTo(c)
      BY <1>1 DEF HandlesTo
    <3> QED
      BY <1>1, <3>1, HeldFinite DEF HandlesHeld
  <2>2. /\ refs[c] = HandlesHeld(c) + Cardinality(EdgesTo(c)) + lost[c]
        /\ refs[c] > 0 <=> c \in registry
        /\ c \in preloaded => c \notin registry
    BY DEF Counted
  <2>3. /\ gone \in Nat /\ Cardinality(EdgesTo(c)) = Cardinality(EdgesTo(c))' + gone
        /\ lost'[c] = lost[c] + gone /\ lost[c] \in Nat
    BY <1>1, <1>3 DEF Types
  <2>4. Cardinality(EdgesTo(c))' \in Nat
    <3>1. EdgesTo(c)' \subseteq EdgesTo(c)
      BY <1>1 DEF EdgesTo, Types
    <3>2. IsFiniteSet(EdgesTo(c)')
      BY <3>1, HeldFinite, FS_Subset
    <3>3. Cardinality(EdgesTo(c)') \in Nat
      BY <3>2, FS_CardinalityType
    <3> QED
      BY <3>3
  <2> HIDE DEF gone
  <2> QED
    BY <1>1, <2>1, <2>2, <2>3, <2>4, HeldFinite
<1>8. Counted'
  BY <1>7 DEF Counted
<1> QED
  BY <1>4, <1>5, <1>6, <1>8

LEMMA RegisterStep == ASSUME Core, Slots, Register PROVE Core'
<1> USE DEF Core
<1>1. /\ top \in Libs /\ top # None /\ closing = {} /\ ~failed /\ stage[top] = "ctors"
      /\ registry' = registry \union {top} /\ refs' = [refs EXCEPT ![top] = 1]
      /\ stage' = [stage EXCEPT ![top] = "none"] /\ below' = [below EXCEPT ![top] = None]
      /\ slot' = [slot EXCEPT ![top] = None] /\ top' = below[top]
      /\ UNCHANGED <<preloaded, closing, failed, lost>>
  BY DEF Register, LoaderRuns, Types
<1>2. Active(top) /\ top \notin registry \union preloaded
  BY <1>1 DEF Linked, Active
<1>3. /\ Cardinality(HandlesTo(top)) = 0 /\ Cardinality(EdgesTo(top)) = 0 /\ lost[top] = 0
  <2>1. refs[top] = Cardinality(HandlesTo(top)) + Cardinality(EdgesTo(top)) + lost[top]
    BY <1>1, <1>2 DEF Counted, HandlesHeld
  <2>2. refs[top] = 0 /\ lost[top] \in Nat
    BY <1>1, <1>2 DEF Counted, Types
  <2> QED
    BY <2>1, <2>2, HeldFinite
<1>4. /\ refs' \in [Libs -> Nat] /\ stage' \in [Libs -> Stages]
      /\ below' \in [Libs -> Libs \union {None}] /\ slot' \in [Libs -> HandleIds \union {None}]
      /\ top' \in Libs \union {None} /\ registry' \subseteq Libs
  BY <1>1 DEF Types, Stages
<1>5. ASSUME NEW c \in Libs
      PROVE  /\ refs[c] = HandlesHeld(c) + Cardinality(EdgesTo(c)) + lost[c]
             /\ refs[c] > 0 <=> c \in registry
             /\ c \in preloaded => c \notin registry
             /\ refs'[c] = IF c = top THEN 1 ELSE refs[c]
             /\ refs[c] \in Nat /\ lost[c] \in Nat
  BY <1>1 DEF Counted, Types
<1>6. CASE slot[top] # None
  <2>1. /\ handle' = [handle EXCEPT ![slot[top]] = top]
        /\ next' = [next EXCEPT ![top] = 1] /\ deps' = deps
        /\ slot[top] \in HandleIds
    BY <1>1, <1>6 DEF Register, Types
  <2>2. handle[slot[top]] = None
    BY <1>1, <1>6 DEF Slots
  <2>3. Types'
    BY <1>1, <1>4, <2>1 DEF Types
  <2>4. Linked'
    BY <1>1, <2>1, PopLinked DEF Types
  <2>5. Collected'
    BY <1>1, <2>1 DEF Collected, Active, Types
  <2>6. ASSUME NEW c \in Libs
        PROVE  /\ refs'[c] = HandlesHeld(c)' + Cardinality(EdgesTo(c))' + lost'[c]
               /\ refs'[c] > 0 <=> c \in registry'
               /\ c \in preloaded' => c \notin registry'
    <3>1. Cardinality(HandlesTo(c))' = Cardinality(HandlesTo(c)) + (IF c = top THEN 1 ELSE 0)
      BY <1>1, <2>1, <2>2, HandleOpens DEF Types
    <3>2. Cardinality(EdgesTo(c))' = Cardinality(EdgesTo(c))
      <4>1. EdgesTo(c)' = EdgesTo(c)
        BY <2>1 DEF EdgesTo
      <4> QED
        BY <4>1
    <3> QED
      BY <1>1, <1>2, <1>3, <1>5, <3>1, <3>2, HeldFinite DEF HandlesHeld
  <2>7. Counted'
    BY <2>6 DEF Counted
  <2> QED
    BY <2>3, <2>4, <2>5, <2>7
<1>7. CASE slot[top] = None
  <2> DEFINE parent == below[top]
             i == next[below[top]]
  <2>1. /\ parent \in Libs /\ parent # top /\ Active(parent) /\ stage[parent] = "needed"
        /\ i \in DOMAIN Needed[parent] /\ Needed[parent][i] = top /\ i \in Nat \ {0}
    BY <1>1, <1>2, <1>7 DEF Linked, Types
  <2>2. /\ handle' = handle /\ deps' = [deps EXCEPT ![parent] = @ \union {i}]
        /\ next' = [next EXCEPT ![top] = 1, ![parent] = @ + 1]
    BY <1>7 DEF Register
  <2>3. \A k \in deps[parent] : k < i /\ k \in Nat
    BY <2>1 DEF Collected, Types
  <2>4. Types'
    <3>1. next' \in [Libs -> Nat \ {0}]
      BY <2>1, <2>2 DEF Types
    <3>2. deps' \in [Libs -> SUBSET Nat] /\ \A l \in Libs : deps'[l] \subseteq DOMAIN Needed[l]
      BY <2>1, <2>2 DEF Types
    <3> QED
      BY <1>1, <1>4, <2>2, <3>1, <3>2 DEF Types
  <2>5. Linked'
    <3>1. \A m \in Libs \ {top, parent} : next'[m] = next[m]
      BY <2>2 DEF Types
    <3> QED
      BY <1>1, <3>1, PopLinked
  <2>6. Collected'
    <3>1. ASSUME NEW l \in Libs, deps'[l] # {}
          PROVE  l \in registry' \union closing' \/ Active(l)'
      BY <1>1, <2>1, <2>2, <3>1 DEF Collected, Active, Types
    <3>2. ASSUME NEW l \in Libs, Active(l)', NEW k \in deps'[l]
          PROVE  k < next'[l]
      <4>1. CASE l = parent
        <5>1. next'[l] = i + 1 /\ (k = i \/ k \in deps[parent])
          BY <2>1, <2>2, <3>2, <4>1 DEF Types
        <5> QED
          BY <2>1, <2>3, <5>1
      <4>2. CASE l # parent
        BY <1>1, <2>1, <2>2, <3>2, <4>2 DEF Collected, Active, Types
      <4> QED
        BY <4>1, <4>2
    <3>3. ASSUME NEW l \in Libs, stage'[l] = "read"
          PROVE  deps'[l] = {}
      BY <1>1, <2>1, <2>2, <3>3 DEF Collected, Types
    <3> QED
      BY <3>1, <3>2, <3>3 DEF Collected
  <2>7. ASSUME NEW c \in Libs
        PROVE  /\ refs'[c] = HandlesHeld(c)' + Cardinality(EdgesTo(c))' + lost'[c]
               /\ refs'[c] > 0 <=> c \in registry'
               /\ c \in preloaded' => c \notin registry'
    <3>0. i \notin deps[parent]
      BY <2>1, <2>3
    <3>1. Cardinality(EdgesTo(c))' = Cardinality(EdgesTo(c)) + (IF c = top THEN 1 ELSE 0)
      <4>1. deps \in [Libs -> SUBSET Nat] /\ parent \in Libs /\ i \in DOMAIN Needed[parent]
        BY <2>1 DEF Types
      <4>2. deps' = [deps EXCEPT ![parent] = @ \union {i}] /\ top = Needed[parent][i]
        BY <2>1, <2>2
      <4> HIDE DEF parent, i
      <4> QED
        BY <3>0, <4>1, <4>2, EdgeAdded
    <3>2. HandlesHeld(c)' = HandlesHeld(c) /\ HandlesHeld(c) \in Nat
      <4>1. HandlesTo(c)' = HandlesTo(c)
        BY <2>2 DEF HandlesTo
      <4> QED
        BY <1>1, <4>1, HeldFinite DEF HandlesHeld
    <3>3. HandlesHeld(top) = 0
      BY <1>2, <1>3 DEF HandlesHeld
    <3> QED
      BY <1>1, <1>2, <1>3, <1>5, <3>1, <3>2, <3>3, HeldFinite
  <2>8. Counted'
    BY <2>7 DEF Counted
  <2> QED
    BY <2>4, <2>5, <2>6, <2>8
<1> QED
  BY <1>6, <1>7

\* One reference to c goes away: d of the handles, 1 - d of the NEEDED edges.
LEMMA UnrefCounts ==
  ASSUME Types, Counted, NEW c \in Libs, Unref(c), c \notin preloaded,
         HandlesTo(c) # {} \/ EdgesTo(c) # {},
         UNCHANGED <<preloaded, lost>>,
         \A m \in Libs :
           HandlesHeld(m)' + Cardinality(EdgesTo(m))' =
             HandlesHeld(m) + Cardinality(EdgesTo(m)) - (IF m = c THEN 1 ELSE 0)
  PROVE  /\ Counted' /\ refs' \in [Libs -> Nat] /\ registry' \subseteq registry
         /\ registry \ registry' = IF Closes(c) THEN {c} ELSE {}
<1>1. \A m \in Libs :
        /\ refs[m] = HandlesHeld(m) + Cardinality(EdgesTo(m)) + lost[m]
        /\ refs[m] > 0 <=> m \in registry
        /\ m \in preloaded => m \notin registry
        /\ refs[m] \in Nat /\ lost[m] \in Nat
        /\ HandlesHeld(m) \in Nat /\ Cardinality(EdgesTo(m)) \in Nat
  BY HeldFinite DEF Counted, Types, HandlesHeld
<1>2. refs[c] >= 1
  BY <1>1, HeldFinite, CountPositive DEF HandlesHeld
<1>3. c \in registry
  BY <1>1, <1>2
<1>4a. Closes(c) <=> refs[c] = 1
  BY <1>1, <1>2 DEF Closes
<1>4. /\ refs' = [refs EXCEPT ![c] = @ - 1]
      /\ registry' = IF refs[c] = 1 THEN registry \ {c} ELSE registry
  BY <1>4a DEF Unref, Released
<1>5. refs' \in [Libs -> Nat]
  BY <1>1, <1>2, <1>4 DEF Types
<1>6. \A m \in Libs : refs'[m] = refs[m] - (IF m = c THEN 1 ELSE 0)
  BY <1>1, <1>4 DEF Types
<1>7. ASSUME NEW m \in Libs
      PROVE  /\ refs'[m] = HandlesHeld(m)' + Cardinality(EdgesTo(m))' + lost'[m]
             /\ refs'[m] > 0 <=> m \in registry'
             /\ m \in preloaded' => m \notin registry'
  <2>1. refs'[m] = HandlesHeld(m) + Cardinality(EdgesTo(m)) - (IF m = c THEN 1 ELSE 0) + lost[m]
    BY <1>1, <1>6
  <2>2. refs'[m] = HandlesHeld(m)' + Cardinality(EdgesTo(m))' + lost[m]
    BY <2>1
  <2>3. refs'[m] > 0 <=> m \in registry'
    BY <1>1, <1>2, <1>4, <1>6
  <2>4. m \in preloaded' => m \notin registry'
    BY <1>1, <1>4
  <2> QED
    BY <2>2, <2>3, <2>4
<1>8. Counted'
  BY <1>7 DEF Counted
<1> QED
  BY <1>3, <1>4, <1>4a, <1>5, <1>8

LEMMA DropStep == ASSUME Core, NEW h \in HandleIds, Drop(h) PROVE Core'
<1> USE DEF Core
<1> DEFINE l == handle[h]
<1>1. /\ l \in Libs /\ l # None /\ closing = {} /\ handle' = [handle EXCEPT ![h] = None]
      /\ UNCHANGED <<preloaded, deps, stage, next, below, slot, top, failed, lost>>
  BY DEF Drop, GuestRuns, frame, entry, Types
<1>2. ASSUME NEW c \in Libs
      PROVE  /\ Cardinality(HandlesTo(c))' = Cardinality(HandlesTo(c)) - (IF c = l THEN 1 ELSE 0)
             /\ Cardinality(EdgesTo(c))' = Cardinality(EdgesTo(c))
  <2>1. EdgesTo(c)' = EdgesTo(c)
    BY <1>1 DEF EdgesTo
  <2> QED
    BY <1>1, <2>1, HandleCloses DEF Types
<1>3. CASE l \in preloaded
  <2>1. UNCHANGED <<registry, refs, closing>>
    BY <1>3 DEF Drop, entry
  <2>2. Types'
    BY <1>1, <2>1 DEF Types
  <2>3. Linked' /\ Collected'
    BY <1>1, <2>1 DEF Linked, Collected, Active
  <2>4. \A c \in Libs : HandlesHeld(c)' = HandlesHeld(c)
    <3>1. ASSUME NEW c \in Libs PROVE HandlesHeld(c)' = HandlesHeld(c)
      BY <1>1, <1>2, <1>3, HeldFinite DEF HandlesHeld
    <3> QED
      BY <3>1
  <2>5. Counted'
    BY <1>1, <1>2, <2>1, <2>4 DEF Counted
  <2> QED
    BY <2>2, <2>3, <2>5
<1>4. CASE l \notin preloaded
  <2>1. Unref(l) /\ closing' = IF Closes(l) THEN {l} ELSE {}
    BY <1>4 DEF Drop
  <2>2. HandlesTo(l) # {}
    BY DEF HandlesTo
  <2>3. ASSUME NEW m \in Libs
        PROVE  HandlesHeld(m)' + Cardinality(EdgesTo(m))' =
                 HandlesHeld(m) + Cardinality(EdgesTo(m)) - (IF m = l THEN 1 ELSE 0)
    BY <1>1, <1>2, <1>4, HeldFinite DEF HandlesHeld
  <2>4. /\ Counted' /\ refs' \in [Libs -> Nat] /\ registry' \subseteq registry
        /\ registry \ registry' = IF Closes(l) THEN {l} ELSE {}
    BY <1>1, <1>4, <2>1, <2>2, <2>3, UnrefCounts
  <2>5. Types'
    BY <1>1, <2>1, <2>4 DEF Types
  <2>6. Linked'
    BY <1>1, <2>4 DEF Linked, Active
  <2>7. Collected'
    BY <1>1, <2>1, <2>4 DEF Collected, Active
  <2> QED
    BY <2>4, <2>5, <2>6, <2>7
<1> QED
  BY <1>3, <1>4

LEMMA CascadeStep ==
  ASSUME Core, Targets, NEW l \in Libs, NEW i \in DOMAIN Needed[l], Cascade(l, i)
  PROVE  Core'
<1> USE DEF Core
<1> DEFINE c == Needed[l][i]
<1>1. /\ l \in closing /\ i \in deps[l] /\ Unref(c) /\ c \in Libs
      /\ deps' = [deps EXCEPT ![l] = @ \ {i}]
      /\ closing' = closing \union (IF Closes(c) THEN {c} ELSE {})
      /\ UNCHANGED <<preloaded, handle, stage, next, below, slot, top, failed, lost>>
  BY DEF Cascade, Targets, frame
<1>2. EdgesTo(c) # {}
  <2>1. <<l, i>> \in EdgesTo(c)
    BY <1>1 DEF EdgesTo, Positions
  <2> QED
    BY <2>1
<1>3. c \notin preloaded
  <2>1. refs[c] > 0
    <3>1. HandlesHeld(c) \in Nat /\ lost[c] \in Nat
      BY <1>1, HeldFinite DEF HandlesHeld, Types
    <3>2. refs[c] = HandlesHeld(c) + Cardinality(EdgesTo(c)) + lost[c]
      BY <1>1 DEF Counted
    <3> QED
      BY <1>2, <3>1, <3>2, CountPositive, HeldFinite
  <2> QED
    BY <1>1, <2>1 DEF Counted
<1>4. ASSUME NEW m \in Libs
      PROVE  HandlesHeld(m)' + Cardinality(EdgesTo(m))' =
               HandlesHeld(m) + Cardinality(EdgesTo(m)) - (IF m = c THEN 1 ELSE 0)
  <2>1. Cardinality(EdgesTo(m))' = Cardinality(EdgesTo(m)) - (IF m = c THEN 1 ELSE 0)
    BY <1>1, EdgeRemoved DEF Types
  <2>2. HandlesHeld(m)' = HandlesHeld(m) /\ HandlesHeld(m) \in Nat
    <3>1. HandlesTo(m)' = HandlesTo(m)
      BY <1>1 DEF HandlesTo
    <3> QED
      BY <1>1, <3>1, HeldFinite DEF HandlesHeld
  <2> QED
    BY <2>1, <2>2, HeldFinite
<1>5. /\ Counted' /\ refs' \in [Libs -> Nat] /\ registry' \subseteq registry
      /\ registry \ registry' = IF Closes(c) THEN {c} ELSE {}
  BY <1>1, <1>2, <1>3, <1>4, UnrefCounts
<1>6. Types'
  <2>1. deps' \in [Libs -> SUBSET Nat] /\ \A m \in Libs : deps'[m] \subseteq DOMAIN Needed[m]
    BY <1>1 DEF Types
  <2> QED
    BY <1>1, <1>5, <2>1 DEF Types
<1>7. Linked'
  BY <1>1, <1>5 DEF Linked, Active
<1>8. Collected'
  BY <1>1, <1>5 DEF Collected, Active, Types
<1> QED
  BY <1>5, <1>6, <1>7, <1>8

LEMMA CascadeDoneStep == ASSUME Core, NEW l \in Libs, CascadeDone(l) PROVE Core'
<1> USE DEF Core
<1>1. /\ deps[l] = {} /\ closing' = closing \ {l}
      /\ UNCHANGED <<preloaded, registry, refs, deps, handle, stage, next, below, slot, top,
                     failed, lost>>
  BY DEF CascadeDone, entry, frame
<1>2. Types' /\ Linked' /\ Collected'
  BY <1>1 DEF Types, Linked, Collected, Active
<1>3. Counted'
  BY <1>1, CountedSame
<1> QED
  BY <1>2, <1>3

LEMMA CoreStep == ASSUME IInv, [Next]_vars PROVE Core'
<1> USE DEF IInv
<1>1. ASSUME UNCHANGED vars PROVE Core'
  <2>1. UNCHANGED <<preloaded, registry, refs, deps, handle, stage, next, below, slot, top,
                    closing, failed, lost>>
    BY <1>1 DEF vars, entry, frame
  <2>2. Types' /\ Linked' /\ Collected'
    BY <2>1 DEF Core, Types, Linked, Collected, Active
  <2>3. Counted'
    BY <2>1, CountedSame DEF Core
  <2> QED
    BY <2>2, <2>3 DEF Core
<1> QED
  BY <1>1, RegistryStep, LoadStep, ReadFailsStep, NeededFailsStep, CycleStep, MovesStep,
     ShareNeededStep, LoadNeededStep, LateFailsStep, RegisterStep, DropStep, CascadeStep,
     CascadeDoneStep, Zenon DEF Next, LoaderStep

LEMMA SlotsStep == ASSUME IInv, [Next]_vars PROVE Slots'
<1> USE DEF IInv, Core
<1>1. ASSUME NEW l \in Libs, NEW h \in HandleIds, Load(l, h)
      PROVE  Slots'
  <2>1. handle[h] = None /\ \A m \in Libs : slot[m] # h
    BY <1>1 DEF Load
  <2>2. \/ handle' = [handle EXCEPT ![h] = l] /\ slot' = slot
        \/ handle' = handle /\ slot' = [slot EXCEPT ![l] = h]
    BY <1>1 DEF Load, Begin, frame
  <2> QED
    BY <2>1, <2>2 DEF Slots, Types
<1>2. ASSUME LoadNeeded
      PROVE  Slots'
  BY <1>2 DEF LoadNeeded, Begin, Unknown, Slots, Types
<1>3. ASSUME Fail, UNCHANGED handle
      PROVE  Slots'
  BY <1>3 DEF Fail, Pop, Slots, Types
<1>4. ASSUME Register
      PROVE  Slots'
  <2>1. slot' = [slot EXCEPT ![top] = None] /\ top \in Libs
    BY <1>4 DEF Register, LoaderRuns, Types
  <2>2. \/ handle' = handle
        \/ slot[top] # None /\ handle' = [handle EXCEPT ![slot[top]] = top]
    BY <1>4 DEF Register
  <2>3. ASSUME NEW l \in Libs, slot'[l] # None
        PROVE  /\ handle'[slot'[l]] = None
               /\ \A m \in Libs : slot'[m] = slot'[l] => m = l
    <3>1. l # top /\ slot'[l] = slot[l] /\ slot[l] \in HandleIds
      BY <2>1, <2>3 DEF Types
    <3>2. slot[l] # slot[top] /\ handle[slot[l]] = None
      BY <2>1, <2>3, <3>1 DEF Slots
    <3>3. handle'[slot[l]] = None
      BY <2>2, <3>1, <3>2 DEF Types
    <3>4. \A m \in Libs : slot'[m] = slot[l] => slot[m] = slot[l]
      BY <2>1, <2>3, <3>1 DEF Types
    <3> QED
      BY <2>3, <3>1, <3>3, <3>4 DEF Slots
  <2> QED
    BY <2>3 DEF Slots
<1>5. ASSUME NEW h \in HandleIds, Drop(h)
      PROVE  Slots'
  BY <1>5 DEF Drop, frame, Slots, Types
<1>6. ASSUME UNCHANGED <<slot, handle>>
      PROVE  Slots'
  BY <1>6 DEF Slots
<1>7. ReadFails \/ Cycle \/ NeededFails \/ LateFails => Fail /\ UNCHANGED handle
  BY DEF ReadFails, Cycle, NeededFails, LateFails, RollBack
<1>8. \/ SetLibraries \/ Allocate \/ SkipNeeded \/ ShareNeeded \/ NeededDone \/ Instantiate
      \/ (\E l \in Libs : CascadeDone(l) \/ \E i \in DOMAIN Needed[l] : Cascade(l, i))
      \/ UNCHANGED vars
      => UNCHANGED <<slot, handle>>
  BY DEF SetLibraries, Allocate, SkipNeeded, ShareNeeded, NeededDone, Instantiate,
         CascadeDone, Cascade, frame, vars
<1> QED
  BY <1>1, <1>2, <1>3, <1>4, <1>5, <1>6, <1>7, <1>8, Zenon DEF Next, LoaderStep

LEMMA TargetsStep == ASSUME IInv, [Next]_vars PROVE Targets'
<1> USE DEF IInv, Core
<1>1. ASSUME ShareNeeded PROVE Targets'
  BY <1>1 DEF ShareNeeded, NeededEntry, Targets, Types
<1>2. ASSUME Register PROVE Targets'
  <2>1. CASE slot[top] # None
    BY <1>2, <2>1 DEF Register, Targets
  <2>2. CASE slot[top] = None
    <3>1. /\ top \in Libs /\ top # None
          /\ deps' = [deps EXCEPT ![below[top]] = @ \union {next[below[top]]}]
      BY <1>2, <2>2 DEF Register, LoaderRuns, Types
    <3>2. Needed[below[top]][next[below[top]]] = top
      BY <2>2, <3>1 DEF Linked
    <3> QED
      BY <3>1, <3>2 DEF Targets, Types
  <2> QED
    BY <2>1, <2>2
<1>3. ASSUME LateFails PROVE Targets'
  BY <1>3 DEF LateFails, Targets, Types
<1>4. ASSUME NEW l \in Libs, NEW i \in DOMAIN Needed[l], Cascade(l, i) PROVE Targets'
  BY <1>4 DEF Cascade, Targets, Types
<1>5. ASSUME UNCHANGED deps PROVE Targets'
  BY <1>5 DEF Targets
<1>6. \/ SetLibraries \/ ReadFails \/ Allocate \/ SkipNeeded \/ LoadNeeded \/ Cycle
      \/ NeededFails \/ NeededDone \/ Instantiate
      \/ (\E l \in Libs : CascadeDone(l))
      \/ (\E h \in HandleIds : Drop(h) \/ \E l \in Libs : Load(l, h))
      \/ UNCHANGED vars
      => UNCHANGED deps
  BY DEF SetLibraries, ReadFails, Allocate, SkipNeeded, LoadNeeded, Cycle, NeededFails,
         RollBack, NeededDone, Instantiate, CascadeDone, Drop, Load, entry, vars
<1> QED
  BY <1>1, <1>2, <1>3, <1>4, <1>5, <1>6, Zenon DEF Next, LoaderStep

LEMMA InitInvariant == Init => IInv
<1> SUFFICES ASSUME Init PROVE IInv
  OBVIOUS
<1>1. Types
  <2>1. /\ refs \in [Libs -> Nat] /\ lost \in [Libs -> Nat] /\ next \in [Libs -> Nat \ {0}]
        /\ deps \in [Libs -> SUBSET Nat] /\ \A l \in Libs : deps[l] \subseteq DOMAIN Needed[l]
    BY DEF Init
  <2>2. /\ handle \in [HandleIds -> Libs \union {None}] /\ stage \in [Libs -> Stages]
        /\ below \in [Libs -> Libs \union {None}] /\ slot \in [Libs -> HandleIds \union {None}]
    BY DEF Init, Stages
  <2>3. failed \in BOOLEAN /\ top \in Libs \union {None}
    BY Zenon DEF Init
  <2>4. preloaded = {} /\ registry = {} /\ closing = {}
    BY DEF Init
  <2> QED
    BY <2>1, <2>2, <2>3, <2>4, Zenon DEF Types
<1>2. Linked /\ Collected /\ Slots /\ Targets
  BY DEF Init, Linked, Collected, Slots, Targets, Active
<1>3. ASSUME NEW c \in Libs
      PROVE  Cardinality(HandlesTo(c)) = 0 /\ Cardinality(EdgesTo(c)) = 0
  <2>1. HandlesTo(c) = {} /\ EdgesTo(c) = {}
    BY NoneAssumption DEF Init, HandlesTo, EdgesTo
  <2> QED
    BY <2>1, FS_EmptySet
<1>4. Counted
  BY <1>3 DEF Init, Counted, HandlesHeld
<1> QED
  BY <1>1, <1>2, <1>4 DEF IInv, Core

LEMMA Invariant == Spec => []IInv
<1>1. IInv /\ [Next]_vars => IInv'
  BY CoreStep, SlotsStep, TargetsStep DEF IInv
<1> QED
  BY <1>1, InitInvariant, PTL DEF Spec

-----------------------------------------------------------------------------
(* The theorems.                                                           *)

\* The reference count of a library is the number of handles and NEEDED lists
\* that refer to it, plus what failed loads have lost: load, Drop and unref
\* never count a reference twice, nor release one twice.
THEOREM ReferencesAreCounted == Spec => []RefCountIsAccounted
<1>1. IInv => RefCountIsAccounted
  BY HeldFinite DEF IInv, Core, Counted, HandlesHeld, Held, Types, RefCountIsAccounted
<1> QED
  BY <1>1, Invariant, PTL

\* A library stays loaded while a handle or a NEEDED list refers to it: dlclose
\* of one user never closes the instance another one calls into.
THEOREM NothingDangles == Spec => []NoDangling
<1>1. ASSUME IInv PROVE NoDangling
  <2> USE <1>1 DEF IInv, Core
  <2>1. ASSUME NEW c \in Libs, c \notin preloaded, HandlesTo(c) # {}
        PROVE  c \in registry
    <3>1. /\ refs[c] = Cardinality(HandlesTo(c)) + Cardinality(EdgesTo(c)) + lost[c]
          /\ refs[c] > 0 <=> c \in registry
          /\ lost[c] \in Nat
      BY <2>1 DEF Counted, HandlesHeld, Types
    <3> QED
      BY <2>1, <3>1, HeldFinite, CountPositive
  <2>2. ASSUME NEW c \in Libs, EdgesTo(c) # {}
        PROVE  c \in registry
    <3>1. /\ refs[c] = HandlesHeld(c) + Cardinality(EdgesTo(c)) + lost[c]
          /\ refs[c] > 0 <=> c \in registry
          /\ lost[c] \in Nat /\ HandlesHeld(c) \in Nat
      BY HeldFinite DEF Counted, HandlesHeld, Types
    <3> QED
      BY <2>2, <3>1, HeldFinite, CountPositive
  <2>3. ASSUME NEW h \in HandleIds, handle[h] # None
        PROVE  handle[h] \in registry \union preloaded
    <3>1. handle[h] \in Libs /\ h \in HandlesTo(handle[h])
      BY <2>3 DEF Types, HandlesTo
    <3> QED
      BY <2>1, <3>1
  <2>4. ASSUME NEW l \in Libs, NEW i \in deps[l]
        PROVE  Needed[l][i] \in registry
    <3>1. Needed[l][i] \in Libs /\ i \in DOMAIN Needed[l]
      BY DEF Targets, Types
    <3>2. <<l, i>> \in EdgesTo(Needed[l][i])
      BY <3>1 DEF EdgesTo, Positions
    <3> QED
      BY <2>2, <3>1, <3>2
  <2> QED
    BY <2>3, <2>4 DEF NoDangling
<1> QED
  BY <1>1, Invariant, PTL

-----------------------------------------------------------------------------
(* What is loaded, in which order.                                         *)

\* The NEEDED loop has passed entry i of l.
Done(l, i) ==
  l \in registry \/ stage[l] \in {"build", "ctors"} \/ (stage[l] = "needed" /\ i < next[l])

\* An entry the loop has passed is referenced, or main's.
Passed ==
  /\ \A l \in Libs : \A i \in DOMAIN Needed[l] :
       Done(l, i) => i \in deps[l] \/ Needed[l][i] \in preloaded \union MainSatisfied
  /\ \A l \in Libs : stage[l] = "read" => next[l] = 1

\* A library that is being closed is out of the registry and out of the loader.
Leaving == \A l \in closing : l \notin registry /\ ~Active(l)

LEMMA DomainNeeded ==
  ASSUME NEW l \in Libs
  PROVE  Len(Needed[l]) \in Nat /\ DOMAIN Needed[l] = 1..Len(Needed[l])
<1>1. Needed[l] \in Seq(Libs \union MainSatisfied)
  BY NeededAssumption
<1> QED
  BY <1>1

\* Where the loader is.
LEMMA TopFacts ==
  ASSUME IInv, NEW s, LoaderRuns(s)
  PROVE  top \in Libs /\ top # None /\ stage[top] = s /\ closing = {} /\ ~failed
BY DEF IInv, Core, Types, LoaderRuns

\* What a reference is on is in the registry, and not main's.
LEMMA DepFacts ==
  ASSUME IInv, NEW l \in Libs, NEW i \in DOMAIN Needed[l], i \in deps[l]
  PROVE  /\ Needed[l][i] \in registry /\ Needed[l][i] \notin preloaded
         /\ EdgesTo(Needed[l][i]) # {}
<1> DEFINE c == Needed[l][i]
<1>1. c \in Libs /\ <<l, i>> \in EdgesTo(c)
  BY DEF IInv, Targets, EdgesTo, Positions
<1>2. refs[c] = HandlesHeld(c) + Cardinality(EdgesTo(c)) + lost[c] /\ lost[c] \in Nat
  BY <1>1 DEF IInv, Core, Counted, Types
<1>3. HandlesHeld(c) \in Nat
  BY HeldFinite DEF HandlesHeld
<1>4. refs[c] > 0
  BY <1>1, <1>2, <1>3, HeldFinite, CountPositive
<1> QED
  BY <1>1, <1>4 DEF IInv, Core, Counted

\* The innermost load fails.
LEMMA PassedFails ==
  ASSUME IInv, Passed, top \in Libs, Fail, UNCHANGED <<preloaded, registry>>,
         \A l \in Libs \ {top} : deps'[l] = deps[l]
  PROVE  Passed'
<1>1. /\ stage' = [stage EXCEPT ![top] = "none"] /\ next' = [next EXCEPT ![top] = 1]
      /\ top \notin registry
  <2>1. stage' = [stage EXCEPT ![top] = "none"] /\ next' = [next EXCEPT ![top] = 1]
    BY DEF Fail, Pop
  <2>2. Active(top)
    BY NoneAssumption DEF IInv, Core, Linked
  <2> QED
    BY <2>1, <2>2 DEF IInv, Core, Linked
<1>2. /\ stage'[top] = "none" /\ next'[top] = 1
      /\ \A l \in Libs \ {top} : stage'[l] = stage[l] /\ next'[l] = next[l]
  BY <1>1 DEF IInv, Core, Types
<1> QED
  BY <1>1, <1>2 DEF Passed, Done

\* A load begins.
LEMMA PassedBegins ==
  ASSUME IInv, Passed, NEW l \in Libs, NEW h, l \notin registry, Begin(l, h),
         UNCHANGED <<preloaded, registry, deps>>
  PROVE  Passed'
<1>1. /\ stage'[l] = "read" /\ next'[l] = 1
      /\ \A m \in Libs \ {l} : stage'[m] = stage[m] /\ next'[m] = next[m]
  BY DEF IInv, Core, Types, Begin
<1> QED
  BY <1>1 DEF Passed, Done

LEMMA PassedStep == ASSUME IInv, Passed, Leaving, [Next]_vars PROVE Passed'
<1> USE DEF IInv, Core
<1>1. ASSUME SetLibraries PROVE Passed'
  BY <1>1 DEF SetLibraries, Passed, Done, entry, frame
<1>2. ASSUME NEW l \in Libs, NEW h \in HandleIds, Load(l, h) PROVE Passed'
  <2>1. CASE l \in registry \union preloaded
    BY <1>2, <2>1 DEF Load, frame, Passed, Done
  <2>2. CASE l \notin registry \union preloaded
    BY <1>2, <2>2, PassedBegins DEF Load, entry
  <2> QED
    BY <2>1, <2>2
<1>3. ASSUME ReadFails PROVE Passed'
  BY <1>3, TopFacts, PassedFails DEF ReadFails, entry
<1>4. ASSUME Cycle \/ NeededFails PROVE Passed'
  <2>1. top \in Libs /\ RollBack
    BY <1>4, TopFacts DEF Cycle, Unknown, MoreNeeded, NeededFails, Linked, Types
  <2> QED
    BY <2>1, PassedFails DEF RollBack, entry
<1>5. ASSUME Allocate PROVE Passed'
  <2>1. /\ top \in Libs /\ stage[top] = "read" /\ next[top] = 1
        /\ stage' = [stage EXCEPT ![top] = "needed"]
        /\ UNCHANGED <<preloaded, registry, deps, next>>
    BY <1>5, TopFacts DEF Allocate, Passed, entry
  <2>2. \A i \in DOMAIN Needed[top] : ~(i < next[top])
    BY <2>1, DomainNeeded
  <2>3. stage'[top] = "needed" /\ \A l \in Libs \ {top} : stage'[l] = stage[l]
    BY <2>1 DEF Types
  <2>4. top \notin registry
    BY <2>1 DEF Linked, Active
  <2> QED
    BY <2>1, <2>2, <2>3, <2>4 DEF Passed, Done
<1>6. ASSUME SkipNeeded \/ ShareNeeded PROVE Passed'
  <2>1. /\ top \in Libs /\ stage[top] = "needed" /\ next' = [next EXCEPT ![top] = @ + 1]
        /\ next[top] \in Nat /\ UNCHANGED <<preloaded, registry, stage>>
    BY <1>6, TopFacts
       DEF SkipNeeded, ShareNeeded, MoreNeeded, Advance, Types, entry
  <2>2. /\ next'[top] = next[top] + 1 /\ \A l \in Libs \ {top} : next'[l] = next[l]
    BY <2>1 DEF Types
  <2>3. /\ \A l \in Libs : deps[l] \subseteq deps'[l]
        /\ next[top] \in deps'[top] \/ Needed[top][next[top]] \in preloaded \union MainSatisfied
    BY <1>6, <2>1 DEF SkipNeeded, ShareNeeded, NeededEntry, Types, entry
  <2>4. \A i \in DOMAIN Needed[top] : i < next'[top] => i < next[top] \/ i = next[top]
    BY <2>1, <2>2, DomainNeeded
  <2> QED
    BY <2>1, <2>2, <2>3, <2>4 DEF Passed, Done
<1>7. ASSUME LoadNeeded PROVE Passed'
  <2>1. NeededEntry \in Libs /\ NeededEntry \notin registry
    BY <1>7 DEF LoadNeeded, Unknown
  <2>2. PICK l \in Libs : l = NeededEntry
    BY <2>1
  <2> QED
    BY <1>7, <2>1, <2>2, PassedBegins DEF LoadNeeded, entry
<1>8. ASSUME NeededDone PROVE Passed'
  <2>1. /\ top \in Libs /\ stage[top] = "needed" /\ next[top] > Len(Needed[top])
        /\ stage' = [stage EXCEPT ![top] = "build"] /\ next[top] \in Nat
        /\ UNCHANGED <<preloaded, registry, deps, next>>
    BY <1>8, TopFacts DEF NeededDone, entry, Types
  <2>2. \A i \in DOMAIN Needed[top] : i < next[top]
    BY <2>1, DomainNeeded
  <2>3. stage'[top] = "build" /\ \A l \in Libs \ {top} : stage'[l] = stage[l]
    BY <2>1 DEF Types
  <2> QED
    BY <2>1, <2>2, <2>3 DEF Passed, Done
<1>9. ASSUME Instantiate PROVE Passed'
  <2>1. /\ top \in Libs /\ stage[top] = "build" /\ stage' = [stage EXCEPT ![top] = "ctors"]
        /\ UNCHANGED <<preloaded, registry, deps, next>>
    BY <1>9, TopFacts DEF Instantiate
  <2>2. stage'[top] = "ctors" /\ \A l \in Libs \ {top} : stage'[l] = stage[l]
    BY <2>1 DEF Types
  <2> QED
    BY <2>1, <2>2 DEF Passed, Done
<1>10. ASSUME LateFails PROVE Passed'
  <2>1. top \in Libs /\ Fail /\ UNCHANGED <<preloaded, registry>>
    BY <1>10, TopFacts DEF LateFails
  <2>2. \A l \in Libs \ {top} : deps'[l] = deps[l]
    BY <1>10 DEF LateFails, Types
  <2> QED
    BY <2>1, <2>2, PassedFails
<1>11. ASSUME Register PROVE Passed'
  <2>1. /\ top \in Libs /\ stage[top] = "ctors" /\ registry' = registry \union {top}
        /\ stage' = [stage EXCEPT ![top] = "none"] /\ UNCHANGED preloaded
    BY <1>11, TopFacts DEF Register
  <2>2. stage'[top] = "none" /\ \A l \in Libs \ {top} : stage'[l] = stage[l]
    BY <2>1 DEF Types
  <2>3. CASE slot[top] # None
    <3>1. deps' = deps /\ next' = [next EXCEPT ![top] = 1]
      BY <1>11, <2>3 DEF Register
    <3>2. \A l \in Libs \ {top} : next'[l] = next[l]
      BY <3>1 DEF Types
    <3> QED
      BY <2>1, <2>2, <3>1, <3>2 DEF Passed, Done
  <2>4. CASE slot[top] = None
    <3>1. PICK q \in Libs : q = below[top]
      BY <2>1, <2>4 DEF Linked, Active, Types
    <3>2. /\ deps' = [deps EXCEPT ![q] = @ \union {next[q]}]
          /\ next' = [next EXCEPT ![top] = 1, ![q] = @ + 1]
      BY <1>11, <2>4, <3>1 DEF Register
    <3>3. q # top /\ stage[q] = "needed" /\ next[q] \in Nat
      BY <2>1, <2>4, <3>1, NoneAssumption DEF Linked, Active, Types
    <3>4. /\ \A l \in Libs : deps[l] \subseteq deps'[l]
          /\ next[q] \in deps'[q] /\ next'[q] = next[q] + 1
          /\ \A l \in Libs \ {top, q} : next'[l] = next[l]
      BY <3>2, <3>3 DEF Types
    <3>5. \A i \in DOMAIN Needed[q] : i < next'[q] => i < next[q] \/ i = next[q]
      BY <3>3, <3>4, DomainNeeded
    <3> QED
      BY <2>1, <2>2, <3>3, <3>4, <3>5 DEF Passed, Done
  <2> QED
    BY <2>3, <2>4
<1>12. ASSUME NEW h \in HandleIds, Drop(h) PROVE Passed'
  <2>1. registry' \subseteq registry /\ UNCHANGED <<deps, preloaded, stage, next>>
    BY <1>12 DEF Drop, Unref, entry, frame
  <2> QED
    BY <2>1 DEF Passed, Done
<1>13. ASSUME NEW l \in Libs, NEW i \in DOMAIN Needed[l], Cascade(l, i) PROVE Passed'
  <2>1. /\ registry' \subseteq registry /\ UNCHANGED <<preloaded, stage, next>>
        /\ l \notin registry /\ stage[l] = "none"
        /\ \A m \in Libs \ {l} : deps'[m] = deps[m]
    BY <1>13 DEF Cascade, Unref, frame, Leaving, Active, Types
  <2> QED
    BY <2>1 DEF Passed, Done
<1>14. ASSUME UNCHANGED <<registry, preloaded, deps, stage, next>> PROVE Passed'
  BY <1>14 DEF Passed, Done
<1>15. ASSUME NEW l \in Libs, CascadeDone(l) PROVE Passed'
  BY <1>14, <1>15 DEF CascadeDone, entry, frame
<1>16. ASSUME UNCHANGED vars PROVE Passed'
  BY <1>14, <1>16 DEF vars, entry, frame
<1> QED
  BY <1>1, <1>2, <1>3, <1>4, <1>5, <1>6, <1>7, <1>8, <1>9, <1>10, <1>11, <1>12, <1>13,
     <1>15, <1>16, Zenon DEF Next, LoaderStep

LEMMA LeavingStep == ASSUME IInv, Leaving, [Next]_vars PROVE Leaving'
<1> USE DEF IInv, Core
<1>1. ASSUME closing = {}, closing' = {} PROVE Leaving'
  BY <1>1 DEF Leaving
<1>2. ASSUME SetLibraries PROVE Leaving'
  BY <1>1, <1>2 DEF SetLibraries, GuestRuns
<1>3. ASSUME NEW l \in Libs, NEW h \in HandleIds, Load(l, h) PROVE Leaving'
  BY <1>1, <1>3 DEF Load, GuestRuns
<1>4. ASSUME ReadFails \/ Allocate \/ SkipNeeded \/ ShareNeeded \/ LoadNeeded \/ NeededDone
             \/ Instantiate \/ LateFails \/ Register
      PROVE  Leaving'
  <2>1. closing = {} /\ closing' = closing
    BY <1>4
       DEF ReadFails, Allocate, SkipNeeded, ShareNeeded, LoadNeeded, NeededDone, Instantiate,
           LateFails, Register, LoaderRuns, MoreNeeded, Unknown
  <2> QED
    BY <1>1, <2>1
<1>5. ASSUME Cycle \/ NeededFails PROVE Leaving'
  <2>1. top \in Libs /\ top # None /\ RollBack
    BY <1>5, TopFacts DEF Cycle, Unknown, MoreNeeded, NeededFails, Linked, Types
  <2>2. closing' = {top} /\ registry' = registry /\ stage' = [stage EXCEPT ![top] = "none"]
    BY <2>1 DEF RollBack, Fail, Pop, entry
  <2>3. top \notin registry
    BY <2>1 DEF Linked
  <2> QED
    BY <2>1, <2>2, <2>3 DEF Leaving, Active, Types
<1>6. ASSUME NEW h \in HandleIds, Drop(h) PROVE Leaving'
  <2>1. PICK c \in Libs : c = handle[h]
    BY <1>6 DEF Drop, Types
  <2>2. CASE c \in preloaded
    BY <1>1, <1>6, <2>1, <2>2 DEF Drop, GuestRuns
  <2>3. CASE c \notin preloaded
    <3>1. /\ Unref(c) /\ closing' = (IF Closes(c) THEN {c} ELSE {}) /\ stage' = stage
      BY <1>6, <2>1, <2>3 DEF Drop, frame
    <3>2. c \in registry
      <4>1. HandlesTo(c) # {}
        BY <2>1 DEF HandlesTo
      <4>2. refs[c] = Cardinality(HandlesTo(c)) + Cardinality(EdgesTo(c)) + lost[c]
            /\ lost[c] \in Nat /\ (refs[c] > 0 <=> c \in registry)
        BY <2>3 DEF Counted, HandlesHeld, Types
      <4> QED
        BY <4>1, <4>2, HeldFinite, CountPositive
    <3>3. ~Active(c)
      BY <3>2 DEF Linked
    <3> QED
      BY <3>1, <3>3 DEF Leaving, Active, Unref
  <2> QED
    BY <2>2, <2>3
<1>7. ASSUME NEW l \in Libs, NEW i \in DOMAIN Needed[l], Cascade(l, i) PROVE Leaving'
  <2>1. PICK c \in Libs : c = Needed[l][i]
    BY <1>7 DEF Cascade, Targets
  <2>2. /\ Unref(c) /\ closing' = closing \union (IF Closes(c) THEN {c} ELSE {})
        /\ stage' = stage /\ i \in deps[l]
    BY <1>7, <2>1 DEF Cascade, frame
  <2>3. ~Active(c)
    BY <2>1, <2>2, DepFacts DEF Linked
  <2> QED
    BY <2>2, <2>3 DEF Leaving, Active, Unref
<1>8. ASSUME closing' \subseteq closing, UNCHANGED <<registry, stage>> PROVE Leaving'
  BY <1>8 DEF Leaving, Active
<1>9. ASSUME NEW l \in Libs, CascadeDone(l) PROVE Leaving'
  BY <1>8, <1>9 DEF CascadeDone, entry, frame
<1>10. ASSUME UNCHANGED vars PROVE Leaving'
  BY <1>8, <1>10 DEF vars, entry, frame
<1> QED
  BY <1>2, <1>3, <1>4, <1>5, <1>6, <1>7, <1>9, <1>10, Zenon DEF Next, LoaderStep

-----------------------------------------------------------------------------
(* No circles.                                                             *)

\* NEEDED references among loaded libraries are not circular: among any of them there
\* is one the others have no reference on.
Acyclic ==
  \A S \in SUBSET registry : S # {} =>
    \E c \in S : \A l \in S : \A i \in deps[l] : Needed[l][i] # c

\* Nor are the loads in progress, and all of them are below top.
Stacked ==
  /\ \A S \in SUBSET {l \in Libs : Active(l)} : S # {} => \E m \in S : \A k \in S : below[k] # m
  /\ \A l \in Libs : Active(l) => l = top \/ \E m \in Libs : Active(m) /\ below[m] = l

LEMMA AcyclicShrinks ==
  ASSUME Acyclic, registry' \subseteq registry, \A l \in registry' : deps'[l] \subseteq deps[l]
  PROVE  Acyclic'
BY DEF Acyclic

\* The references a new library comes with are on older ones, and nobody has one on it.
LEMMA AcyclicRegister == ASSUME IInv, Acyclic, Register PROVE Acyclic'
<1> USE DEF IInv, Core
<1>1. /\ top \in Libs /\ top # None /\ stage[top] = "ctors" /\ registry' = registry \union {top}
  BY TopFacts DEF Register
<1>2. top \notin registry /\ Active(top)
  BY <1>1 DEF Linked, Active
<1>3. \A l \in registry \union {top} : deps'[l] = deps[l]
  <2>1. CASE slot[top] # None
    BY <2>1 DEF Register
  <2>2. CASE slot[top] = None
    <3>1. PICK q \in Libs : q = below[top]
      BY <1>1, <1>2, <2>2 DEF Linked, Types
    <3>2. Active(q) /\ q # top /\ q \notin registry
      BY <1>1, <1>2, <2>2, <3>1 DEF Linked, Active
    <3>3. deps' = [deps EXCEPT ![q] = @ \union {next[q]}]
      BY <2>2, <3>1 DEF Register
    <3> QED
      BY <3>2, <3>3 DEF Types
  <2> QED
    BY <2>1, <2>2
<1>4. \A l \in registry \union {top} : \A i \in deps[l] : Needed[l][i] # top
  <2> SUFFICES ASSUME NEW l \in Libs, NEW i \in deps[l] PROVE Needed[l][i] # top
    BY <1>1 DEF Types
  <2>1. i \in DOMAIN Needed[l]
    BY DEF Types
  <2> QED
    BY <1>2, <2>1, DepFacts
<1> SUFFICES ASSUME NEW S \in SUBSET (registry \union {top}), S # {}
             PROVE  \E c \in S : \A l \in S : \A i \in deps'[l] : Needed[l][i] # c
  BY <1>1 DEF Acyclic
<1>5. CASE top \in S
  BY <1>3, <1>4, <1>5
<1>6. CASE top \notin S
  <2>1. S \in SUBSET registry
    BY <1>6
  <2>2. PICK c \in S : \A l \in S : \A i \in deps[l] : Needed[l][i] # c
    BY <2>1 DEF Acyclic
  <2> QED
    BY <1>3, <2>2
<1> QED
  BY <1>5, <1>6

LEMMA AcyclicStep == ASSUME IInv, Acyclic, [Next]_vars PROVE Acyclic'
<1> USE DEF IInv, Core
<1>1. ASSUME ShareNeeded PROVE Acyclic'
  <2>1. /\ top \in Libs /\ top # None /\ stage[top] = "needed" /\ registry' = registry
        /\ deps' = [deps EXCEPT ![top] = @ \union {next[top]}]
    BY <1>1, TopFacts DEF ShareNeeded, MoreNeeded
  <2>2. top \notin registry
    BY <2>1 DEF Linked, Active
  <2> QED
    BY <2>1, <2>2, AcyclicShrinks DEF Types
<1>2. ASSUME Register PROVE Acyclic'
  BY <1>2, AcyclicRegister
<1>3. ASSUME LateFails PROVE Acyclic'
  BY <1>3, AcyclicShrinks DEF LateFails, Types
<1>4. ASSUME NEW l \in Libs, NEW i \in DOMAIN Needed[l], Cascade(l, i) PROVE Acyclic'
  BY <1>4, AcyclicShrinks DEF Cascade, Unref, Types
<1>5. ASSUME registry' \subseteq registry, deps' = deps PROVE Acyclic'
  BY <1>5, AcyclicShrinks
<1>6. ASSUME NEW h \in HandleIds, Drop(h) PROVE Acyclic'
  BY <1>5, <1>6 DEF Drop, Unref, entry
<1>7. \/ SetLibraries \/ ReadFails \/ Allocate \/ SkipNeeded \/ LoadNeeded \/ Cycle
      \/ NeededFails \/ NeededDone \/ Instantiate
      \/ (\E l \in Libs : CascadeDone(l))
      \/ (\E h \in HandleIds, l \in Libs : Load(l, h))
      \/ UNCHANGED vars
      => UNCHANGED <<registry, deps>>
  BY DEF SetLibraries, ReadFails, Allocate, SkipNeeded, LoadNeeded, Cycle, NeededFails,
         RollBack, NeededDone, Instantiate, CascadeDone, Load, entry, vars
<1> QED
  BY <1>1, <1>2, <1>3, <1>4, <1>5, <1>6, <1>7, Zenon DEF Next, LoaderStep

LEMMA StackedKept ==
  ASSUME Stacked, UNCHANGED <<below, top>>, \A l \in Libs : Active(l)' <=> Active(l)
  PROVE  Stacked'
<1>1. {l \in Libs : Active(l)'} = {l \in Libs : Active(l)}
  OBVIOUS
<1> QED
  BY <1>1 DEF Stacked

LEMMA StackedBegins ==
  ASSUME IInv, Stacked, NEW l \in Libs, NEW h, stage[l] = "none", Begin(l, h)
  PROVE  Stacked'
<1> USE DEF IInv, Core
<1>1. /\ stage'[l] = "read" /\ below'[l] = top /\ top' = l
      /\ \A m \in Libs \ {l} : stage'[m] = stage[m] /\ below'[m] = below[m]
  BY DEF Begin, Types
<1>2. top # l /\ l # None /\ \A m \in Libs : Active(m) => below[m] # l
  BY NoneAssumption DEF Linked, Active
<1>3. ASSUME NEW S \in SUBSET {m \in Libs : Active(m)'}, S # {}
      PROVE  \E m \in S : \A k \in S : below'[k] # m
  <2>1. CASE l \in S
    <3>1. \A k \in S : below'[k] # l
      BY <1>1, <1>2, <1>3 DEF Active
    <3> QED
      BY <2>1, <3>1
  <2>2. CASE l \notin S
    <3>1. S \in SUBSET {m \in Libs : Active(m)}
      BY <1>1, <1>3, <2>2 DEF Active
    <3>2. PICK m \in S : \A k \in S : below[k] # m
      BY <1>3, <3>1 DEF Stacked
    <3> QED
      BY <1>1, <2>2, <3>1, <3>2
  <2> QED
    BY <2>1, <2>2
<1>4. ASSUME NEW m \in Libs, Active(m)'
      PROVE  m = top' \/ \E k \in Libs : Active(k)' /\ below'[k] = m
  <2>1. CASE m = l
    BY <1>1, <2>1
  <2>2. CASE m # l
    <3>1. m = top \/ \E k \in Libs : Active(k) /\ below[k] = m
      BY <1>1, <1>4, <2>2 DEF Stacked, Active
    <3> QED
      BY <1>1, <3>1 DEF Active
  <2> QED
    BY <2>1, <2>2
<1> QED
  BY <1>3, <1>4 DEF Stacked

LEMMA StackedPops ==
  ASSUME IInv, Stacked, top \in Libs,
         stage' = [stage EXCEPT ![top] = "none"], below' = [below EXCEPT ![top] = None],
         top' = below[top]
  PROVE  Stacked'
<1> USE DEF IInv, Core
<1>1. /\ stage'[top] = "none"
      /\ \A m \in Libs \ {top} : stage'[m] = stage[m] /\ below'[m] = below[m]
  BY DEF Types
<1>2. ASSUME NEW S \in SUBSET {m \in Libs : Active(m)'}, S # {}
      PROVE  \E m \in S : \A k \in S : below'[k] # m
  <2>1. S \in SUBSET {m \in Libs : Active(m)} /\ top \notin S
    BY <1>1, <1>2 DEF Active
  <2>2. PICK m \in S : \A k \in S : below[k] # m
    BY <1>2, <2>1 DEF Stacked
  <2> QED
    BY <1>1, <2>1, <2>2
<1>3. ASSUME NEW m \in Libs, Active(m)'
      PROVE  m = top' \/ \E k \in Libs : Active(k)' /\ below'[k] = m
  <2>1. m # top /\ Active(m)
    BY <1>1, <1>3 DEF Active
  <2>2. PICK k \in Libs : Active(k) /\ below[k] = m
    BY <2>1 DEF Stacked
  <2>3. CASE k = top
    BY <2>2, <2>3
  <2>4. CASE k # top
    BY <1>1, <2>2, <2>4 DEF Active
  <2> QED
    BY <2>3, <2>4
<1> QED
  BY <1>2, <1>3 DEF Stacked

LEMMA StackedStep == ASSUME IInv, Stacked, [Next]_vars PROVE Stacked'
<1> USE DEF IInv, Core
<1>1. ASSUME UNCHANGED <<stage, below, top>> PROVE Stacked'
  BY <1>1, StackedKept DEF Active
<1>2. ASSUME NEW l \in Libs, NEW h \in HandleIds, Load(l, h) PROVE Stacked'
  <2>1. UNCHANGED <<stage, below, top>> \/ (Begin(l, h) /\ stage[l] = "none")
    BY <1>2 DEF Load, frame
  <2> QED
    BY <1>1, <2>1, StackedBegins
<1>3. ASSUME LoadNeeded PROVE Stacked'
  <2>1. PICK l \in Libs : l = NeededEntry
    BY <1>3 DEF LoadNeeded, Unknown
  <2> QED
    BY <1>3, <2>1, StackedBegins DEF LoadNeeded
<1>4. ASSUME ReadFails \/ Cycle \/ NeededFails \/ LateFails PROVE Stacked'
  <2>1. top \in Libs
    BY <1>4, TopFacts
       DEF ReadFails, Cycle, Unknown, MoreNeeded, NeededFails, LateFails, Linked, Types
  <2>2. /\ stage' = [stage EXCEPT ![top] = "none"] /\ below' = [below EXCEPT ![top] = None]
        /\ top' = below[top]
    BY <1>4 DEF ReadFails, Cycle, NeededFails, RollBack, LateFails, Fail, Pop
  <2> QED
    BY <2>1, <2>2, StackedPops
<1>5. ASSUME Register PROVE Stacked'
  BY <1>5, TopFacts, StackedPops DEF Register
<1>6. ASSUME Allocate \/ NeededDone \/ Instantiate PROVE Stacked'
  <2>1. PICK t \in {"needed", "build", "ctors"} : stage' = [stage EXCEPT ![top] = t]
    BY <1>6 DEF Allocate, NeededDone, Instantiate
  <2>2. top \in Libs /\ Active(top) /\ UNCHANGED <<below, top>>
    BY <1>6, TopFacts DEF Allocate, NeededDone, Instantiate, Active
  <2>3. \A l \in Libs : Active(l)' <=> Active(l)
    BY <2>1, <2>2 DEF Active, Types
  <2> QED
    BY <2>2, <2>3, StackedKept
<1>7. \/ SetLibraries \/ SkipNeeded \/ ShareNeeded
      \/ (\E l \in Libs : CascadeDone(l) \/ \E i \in DOMAIN Needed[l] : Cascade(l, i))
      \/ (\E h \in HandleIds : Drop(h))
      \/ UNCHANGED vars
      => UNCHANGED <<stage, below, top>>
  BY DEF SetLibraries, SkipNeeded, ShareNeeded, CascadeDone, Cascade, Drop, frame, vars
<1> QED
  BY <1>1, <1>2, <1>3, <1>4, <1>5, <1>6, <1>7, Zenon DEF Next, LoaderStep

LEMMA OrderInit == Init => Passed /\ Leaving /\ Acyclic /\ Stacked
<1> SUFFICES ASSUME Init PROVE Passed /\ Leaving /\ Acyclic /\ Stacked
  OBVIOUS
<1>1. registry = {} /\ closing = {} /\ \A l \in Libs : stage[l] = "none"
  BY DEF Init
<1>2. Passed
  BY <1>1 DEF Passed, Done
<1>3. Leaving /\ Acyclic
  BY <1>1 DEF Leaving, Acyclic
<1>4. Stacked
  BY <1>1 DEF Stacked, Active
<1> QED
  BY <1>2, <1>3, <1>4

LEMMA OrderInvariant == Spec => [](IInv /\ Passed /\ Leaving /\ Acyclic /\ Stacked)
<1>1. IInv /\ Passed /\ Leaving /\ Acyclic /\ Stacked /\ [Next]_vars
        => (Passed /\ Leaving /\ Acyclic /\ Stacked)'
  BY PassedStep, LeavingStep, AcyclicStep, StackedStep
<1> QED
  BY <1>1, OrderInit, InitInvariant, Invariant, PTL DEF Spec

\* Whatever the libraries need, a loaded library has it: the NEEDED loop of load has
\* referenced or found every entry, and a reference keeps its library loaded.
THEOREM LibrariesHaveWhatTheyNeed == Spec => []NeededIsLoaded
<1>1. IInv /\ Passed => NeededIsLoaded
  <2> SUFFICES ASSUME IInv, Passed, NEW l \in registry, NEW i \in DOMAIN Needed[l]
               PROVE  Needed[l][i] \in registry \union preloaded \union MainSatisfied
    BY DEF NeededIsLoaded
  <2>1. l \in Libs
    BY DEF IInv, Core, Types
  <2>2. i \in deps[l] \/ Needed[l][i] \in preloaded \union MainSatisfied
    BY <2>1 DEF Passed, Done
  <2> QED
    BY <2>1, <2>2, DepFacts
<1> QED
  BY <1>1, OrderInvariant, PTL

\* When the last handle is closed no library is left, for any NEEDED relation, circular
\* ones included: what is loaded depends on itself in no circle, so a library that no
\* handle and no load holds is held by another, and one of them by nobody.
THEOREM NothingStaysLoaded == Spec => []LastCloseUnloads
<1>1. IInv /\ Acyclic /\ Stacked => LastCloseUnloads
  <2> SUFFICES ASSUME IInv, Acyclic, Stacked, closing = {}, top = None,
                      \A h \in HandleIds : handle[h] = None, \A c \in Libs : lost[c] = 0,
                      registry # {}
               PROVE  FALSE
    BY DEF LastCloseUnloads, GuestRuns
  <2> USE DEF IInv, Core
  <2>1. \A l \in Libs : ~Active(l)
    <3> DEFINE loads == {l \in Libs : Active(l)}
    <3> SUFFICES ASSUME loads # {} PROVE FALSE
      OBVIOUS
    <3>0. \A S \in SUBSET loads : S # {} => \E m \in S : \A k \in S : below[k] # m
      BY DEF Stacked
    <3>1. PICK m \in loads : \A k \in loads : below[k] # m
      <4> HIDE DEF loads
      <4> QED
        BY <3>0
    <3>2. m \in Libs /\ Active(m) /\ \A k \in Libs : Active(k) => below[k] # m
      BY <3>1
    <3> QED
      BY <3>2, NoneAssumption DEF Stacked
  <2>2. PICK c \in registry : \A l \in registry : \A i \in deps[l] : Needed[l][i] # c
    BY DEF Acyclic
  <2>3. c \in Libs /\ c \notin preloaded /\ refs[c] > 0
    BY DEF Types, Counted
  <2>4. refs[c] = Cardinality(HandlesTo(c)) + Cardinality(EdgesTo(c))
    BY <2>3, HeldFinite DEF Counted, HandlesHeld
  <2>5. HandlesTo(c) = {}
    BY <2>3, NoneAssumption DEF HandlesTo
  <2>6. EdgesTo(c) # {}
    <3>1. Cardinality(HandlesTo(c)) = 0
      BY <2>5, FS_EmptySet
    <3>2. EdgesTo(c) = {} => Cardinality(EdgesTo(c)) = 0
      BY FS_EmptySet
    <3> QED
      BY <2>3, <2>4, <3>1, <3>2
  <2>7. PICK l \in Libs, i \in Positions : i \in deps[l] /\ Needed[l][i] = c
    BY <2>6 DEF EdgesTo
  <2>8. l \in registry
    BY <2>1, <2>7 DEF Collected
  <2> QED
    BY <2>2, <2>7, <2>8
<1> QED
  BY <1>1, OrderInvariant, PTL

-----------------------------------------------------------------------------
(* What a library's imports are bound to.                                  *)

Bound ==
  /\ preloaded \subseteq Composed
  /\ \A l \in Libs : l \in registry \/ stage[l] = "ctors" =>
       binds[l] \subseteq registry /\ binds[l] \subseteq Brings(l)
  /\ binds \in [Libs -> SUBSET Libs]

\* A library that loses its last reference is not among what another one, loaded or
\* running its constructors, brings.
LEMMA BringsStay ==
  ASSUME IInv, Passed, Bound, NEW c \in Libs, c \notin preloaded,
         NEW l \in Libs, l # c, l \in registry \/ stage[l] = "ctors",
         \A m \in (registry \union {l}) \ {c} : \A i \in DOMAIN Needed[m] :
            i \in deps[m] => Needed[m][i] # c
  PROVE  c \notin Brings(l)
<1> USE DEF IInv, Core
<1> DEFINE D == ((registry \ {c}) \union preloaded) \union {l}
<1>1. D \in SUBSET Libs /\ l \in D /\ c \notin D
  BY DEF Types
<1>2. ASSUME NEW m \in D \ Composed, NEW i \in DOMAIN Needed[m], Needed[m][i] \in Libs
      PROVE  Needed[m][i] \in D
  <2>1. m \in (registry \union {l}) \ {c} /\ m \in Libs
    BY <1>1, <1>2 DEF Bound
  <2>2. Done(m, i)
    BY <2>1 DEF Done
  <2>3. i \in deps[m] \/ Needed[m][i] \in preloaded \union MainSatisfied
    BY <2>1, <2>2 DEF Passed
  <2>4. CASE i \in deps[m]
    <3>1. Needed[m][i] \in registry
      BY <2>1, <2>4, DepFacts
    <3> QED
      BY <2>1, <2>4, <3>1
  <2>5. CASE Needed[m][i] \in preloaded \union MainSatisfied
    BY <1>2, <2>5, LibsAssumption
  <2> QED
    BY <2>3, <2>4, <2>5
<1> HIDE DEF D
<1> QED
  BY <1>1, <1>2 DEF Brings

\* Closing a library leaves the others' bindings alone.
LEMMA BoundUnref ==
  ASSUME IInv, Passed, Bound, NEW c \in Libs, c \notin preloaded, Unref(c),
         UNCHANGED <<preloaded, stage>>, stage[c] # "ctors",
         Closes(c) => \A m \in {k \in Libs : k \in registry \/ stage[k] = "ctors"} :
                        \A i \in DOMAIN Needed[m] : i \in deps[m] => Needed[m][i] # c
  PROVE  Bound'
<1>1. CASE ~Closes(c)
  BY <1>1 DEF Unref, Bound
<1>2. CASE Closes(c)
  <2>1. registry' = registry \ {c} /\ binds' = [binds EXCEPT ![c] = {}]
    BY <1>2 DEF Unref
  <2>2. ASSUME NEW l \in Libs, l \in registry' \/ stage'[l] = "ctors"
        PROVE  binds'[l] \subseteq registry' /\ binds'[l] \subseteq Brings(l)
    <3>1. l # c /\ (l \in registry \/ stage[l] = "ctors") /\ binds'[l] = binds[l]
      BY <2>1, <2>2 DEF Bound
    <3>2. c \notin Brings(l)
      <4>1. registry \subseteq Libs
        BY DEF IInv, Core, Types
      <4>2. \A m \in (registry \union {l}) \ {c} : \A i \in DOMAIN Needed[m] :
              i \in deps[m] => Needed[m][i] # c
        BY <1>2, <3>1, <4>1
      <4> QED
        BY <3>1, <4>2, BringsStay
    <3>3. binds[l] \subseteq registry /\ binds[l] \subseteq Brings(l)
      BY <3>1 DEF Bound
    <3> QED
      BY <2>1, <3>1, <3>2, <3>3
  <2> QED
    BY <2>1, <2>2 DEF Bound
<1> QED
  BY <1>1, <1>2

LEMMA BoundKept ==
  ASSUME Bound, UNCHANGED <<preloaded, registry, binds>>,
         \A l \in Libs : stage'[l] = "ctors" => stage[l] = "ctors"
  PROVE  Bound'
BY DEF Bound

LEMMA BoundStep ==
  ASSUME IInv, Passed, Leaving, Bound, ImportsAreNeeded, [Next]_vars PROVE Bound'
<1> USE DEF IInv, Core
<1>1. ASSUME SetLibraries PROVE Bound'
  BY <1>1 DEF SetLibraries, entry, frame, Bound
<1>2. ASSUME NEW l \in Libs, NEW h \in HandleIds, Load(l, h) PROVE Bound'
  <2>1. /\ UNCHANGED <<preloaded, registry, binds>>
        /\ stage' = stage \/ stage' = [stage EXCEPT ![l] = "read"]
    BY <1>2 DEF Load, Begin, frame, entry
  <2> QED
    BY <2>1, BoundKept DEF Types
<1>3. ASSUME ReadFails \/ Cycle \/ NeededFails PROVE Bound'
  <2>1. UNCHANGED <<preloaded, registry, binds>> /\ stage' = [stage EXCEPT ![top] = "none"]
    BY <1>3 DEF ReadFails, Cycle, NeededFails, RollBack, Fail, Pop, entry
  <2> QED
    BY <2>1, BoundKept DEF Types
<1>4. ASSUME Allocate \/ NeededDone PROVE Bound'
  <2>1. /\ UNCHANGED <<preloaded, registry, binds>>
        /\ \E t \in {"needed", "build"} : stage' = [stage EXCEPT ![top] = t]
    BY <1>4 DEF Allocate, NeededDone, entry
  <2> QED
    BY <2>1, BoundKept DEF Types
<1>5. ASSUME LoadNeeded PROVE Bound'
  <2>1. UNCHANGED <<preloaded, registry, binds>> /\ stage' = [stage EXCEPT ![NeededEntry] = "read"]
    BY <1>5 DEF LoadNeeded, Begin, entry
  <2> QED
    BY <2>1, BoundKept DEF Types
<1>6. ASSUME Instantiate PROVE Bound'
  <2>1. /\ top \in Libs /\ stage[top] = "build" /\ stage' = [stage EXCEPT ![top] = "ctors"]
        /\ UNCHANGED <<preloaded, registry>>
    BY <1>6, TopFacts DEF Instantiate
  <2>2. PICK sources \in Sources(top) : binds' = [binds EXCEPT ![top] = sources]
    BY <1>6 DEF Instantiate
  <2>3. sources \subseteq registry /\ sources \subseteq UNION Imports[top]
    <3> DEFINE loaded == {P \in Imports[top] : P \intersect registry # {}}
    <3>1. PICK choice \in [loaded -> registry] :
            /\ \A P \in loaded : choice[P] \in P
            /\ sources = {choice[P] : P \in loaded}
      BY <2>2 DEF Sources
    <3>2. \A P \in loaded : P \in Imports[top] /\ choice[P] \in registry
      BY <3>1
    <3> HIDE DEF loaded
    <3> QED
      BY <3>1, <3>2
  <2>4. UNION Imports[top] \subseteq Brings(top)
    BY <2>1 DEF ImportsAreNeeded
  <2>5. sources \in SUBSET Libs
    BY <2>3 DEF Types
  <2>6. binds'[top] = sources /\ \A l \in Libs \ {top} : binds'[l] = binds[l] /\ stage'[l] = stage[l]
    BY <2>1, <2>2 DEF Bound, Types
  <2>7. binds' \in [Libs -> SUBSET Libs]
    BY <2>2, <2>5 DEF Bound
  <2>8. ASSUME NEW l \in Libs, l \in registry' \/ stage'[l] = "ctors"
        PROVE  binds'[l] \subseteq registry' /\ binds'[l] \subseteq Brings(l)
    <3>1. CASE l = top
      BY <2>1, <2>3, <2>4, <2>6, <3>1
    <3>2. CASE l # top
      BY <2>1, <2>6, <2>8, <3>2 DEF Bound
    <3> QED
      BY <3>1, <3>2
  <2> QED
    BY <2>1, <2>7, <2>8 DEF Bound
<1>7. ASSUME LateFails PROVE Bound'
  <2>1. /\ UNCHANGED <<preloaded, registry>> /\ stage' = [stage EXCEPT ![top] = "none"]
        /\ binds' = [binds EXCEPT ![top] = {}]
    BY <1>7 DEF LateFails, Fail, Pop
  <2>2. \A l \in Libs : (stage'[l] = "ctors" => stage[l] = "ctors")
                        /\ binds'[l] \in {binds[l], {}}
    BY <2>1 DEF Types, Bound
  <2>3. binds' \in [Libs -> SUBSET Libs]
    BY <2>1 DEF Bound
  <2> QED
    BY <2>1, <2>2, <2>3 DEF Bound
<1>8. ASSUME Register PROVE Bound'
  <2>1. /\ top \in Libs /\ stage[top] = "ctors" /\ registry' = registry \union {top}
        /\ stage' = [stage EXCEPT ![top] = "none"] /\ UNCHANGED <<preloaded, binds>>
    BY <1>8, TopFacts DEF Register
  <2>2. \A l \in Libs : stage'[l] = "ctors" => stage[l] = "ctors"
    BY <2>1 DEF Types
  <2> QED
    BY <2>1, <2>2 DEF Bound
<1>9. ASSUME NEW h \in HandleIds, Drop(h) PROVE Bound'
  <2>1. PICK c \in Libs : c = handle[h]
    BY <1>9 DEF Drop, Types
  <2>2. CASE c \in preloaded
    BY <1>9, <2>1, <2>2, BoundKept DEF Drop, entry, frame
  <2>3. CASE c \notin preloaded
    <3>1. Unref(c) /\ UNCHANGED <<preloaded, stage>>
      BY <1>9, <2>1, <2>3 DEF Drop, frame
    <3>2. /\ refs[c] = Cardinality(HandlesTo(c)) + Cardinality(EdgesTo(c)) + lost[c]
          /\ lost[c] \in Nat /\ (refs[c] > 0 <=> c \in registry)
      BY <2>3 DEF Counted, HandlesHeld, Types
    <3>3. Cardinality(HandlesTo(c)) > 0
      <4>1. HandlesTo(c) # {}
        BY <2>1 DEF HandlesTo
      <4> QED
        BY <4>1, CountPositive
    <3>4. c \in registry
      BY <3>2, <3>3, HeldFinite
    <3>5. stage[c] # "ctors"
      BY <3>4 DEF Linked, Active
    <3>6. Closes(c) => EdgesTo(c) = {}
      BY <3>2, <3>3, HeldFinite, CountPositive DEF Closes
    <3>7. ASSUME Closes(c), NEW m \in Libs, NEW i \in DOMAIN Needed[m], i \in deps[m]
          PROVE  Needed[m][i] # c
      <4>1. <<m, i>> \notin EdgesTo(c)
        BY <3>6, <3>7
      <4> QED
        BY <3>7, <4>1 DEF EdgesTo, Positions
    <3> QED
      BY <2>3, <3>1, <3>5, <3>7, BoundUnref
  <2> QED
    BY <2>2, <2>3
<1>10. ASSUME NEW l \in Libs, NEW i \in DOMAIN Needed[l], Cascade(l, i) PROVE Bound'
  <2>1. PICK c \in Libs : c = Needed[l][i]
    BY <1>10 DEF Cascade, Targets
  <2>2. Unref(c) /\ UNCHANGED <<preloaded, stage>> /\ l \in closing /\ i \in deps[l]
    BY <1>10, <2>1 DEF Cascade, frame
  <2>3. c \in registry /\ c \notin preloaded
    BY <2>1, <2>2, DepFacts
  <2>4. stage[c] # "ctors" /\ l \notin registry /\ stage[l] # "ctors"
    BY <2>2, <2>3 DEF Linked, Leaving, Active
  <2>5. <<l, i>> \in EdgesTo(c)
    BY <2>1, <2>2 DEF EdgesTo, Positions
  <2>6. Closes(c) => EdgesTo(c) \ {<<l, i>>} = {}
    <3>1. refs[c] = HandlesHeld(c) + Cardinality(EdgesTo(c)) + lost[c] /\ lost[c] \in Nat
      BY DEF Counted, Types
    <3>2. HandlesHeld(c) \in Nat /\ Cardinality(EdgesTo(c)) \in Nat
      BY HeldFinite DEF HandlesHeld
    <3>3. /\ IsFiniteSet(EdgesTo(c) \ {<<l, i>>})
          /\ Cardinality(EdgesTo(c) \ {<<l, i>>}) = Cardinality(EdgesTo(c)) - 1
      BY <2>5, HeldFinite, OneLess, FS_RemoveElement
    <3>4. Closes(c) => Cardinality(EdgesTo(c)) <= 1
      BY <3>1, <3>2 DEF Closes
    <3>5. EdgesTo(c) # {} => Cardinality(EdgesTo(c)) > 0
      BY CountPositive
    <3>6. Closes(c) => Cardinality(EdgesTo(c) \ {<<l, i>>}) = 0
      BY <2>5, <3>2, <3>3, <3>4, <3>5
    <3> QED
      BY <3>3, <3>6, FS_EmptySet
  <2>7. ASSUME Closes(c), NEW m \in Libs, m # l, NEW j \in DOMAIN Needed[m], j \in deps[m]
        PROVE  Needed[m][j] # c
    <3>1. <<m, j>> \notin EdgesTo(c)
      BY <2>6, <2>7
    <3> QED
      BY <2>7, <3>1 DEF EdgesTo, Positions
  <2> QED
    BY <2>2, <2>3, <2>4, <2>7, BoundUnref
<1>11. \/ SkipNeeded \/ ShareNeeded \/ (\E l \in Libs : CascadeDone(l)) \/ UNCHANGED vars
       => UNCHANGED <<preloaded, registry, binds, stage>>
  BY DEF SkipNeeded, ShareNeeded, CascadeDone, entry, frame, vars
<1>12. ASSUME UNCHANGED <<preloaded, registry, binds, stage>> PROVE Bound'
  BY <1>12, BoundKept
<1> QED
  BY <1>1, <1>2, <1>3, <1>4, <1>5, <1>6, <1>7, <1>8, <1>9, <1>10, <1>11, <1>12,
     Zenon DEF Next, LoaderStep

\* The instances a library's imports are bound to stay open while it is loaded, when it
\* imports from what it NEEDS, directly or further down: the loader takes a function from
\* any loaded library that exports it, and only the NEEDED references keep one there.
THEOREM BoundInstancesStayOpen ==
  ASSUME ImportsAreNeeded
  PROVE  Spec => []BindingsStayOpen
<1>1. Init => Bound
  BY DEF Init, Bound
<1>2. IInv /\ Passed /\ Leaving /\ Bound /\ [Next]_vars => Bound'
  BY BoundStep
<1>3. IInv /\ Bound => BindingsStayOpen
  BY DEF Bound, BindingsStayOpen, IInv, Core, Types
<1> QED
  BY <1>1, <1>2, <1>3, OrderInvariant, PTL DEF Spec
=============================================================================
