----------------------------- MODULE PartsProofs ----------------------------
(***************************************************************************)
(* Theorems about parts of the proxy that share no state: the chat zones   *)
(* in a player's metadata, for every set of servers and zones and every    *)
(* number of moves; permission checks, for every list of rules and every   *)
(* request; what MiniMessage makes of a string, for every string; and that *)
(* the commands' answers can be read, whatever metadata they are about.    *)
(***************************************************************************)
EXTENDS ChatZones, Commands, FiniteSetTheorems, WellFoundedInduction, TLAPS

-----------------------------------------------------------------------------
(* Induction, over sets of numbers, and what is computed step by step.      *)

\* A set of numbers that is not empty has a least one.
LEMMA LeastNumber == \A T \in SUBSET Nat : T # {} => \E x \in T : \A y \in T : x <= y
<1> SUFFICES ASSUME NEW T \in SUBSET Nat, T # {} PROVE \E x \in T : \A y \in T : x <= y
  OBVIOUS
<1> DEFINE R == OpToRel(<, Nat)
<1>1. IsWellFoundedOn(R, Nat)
  BY NatLessThanWellFounded
<1>2. \A x, y \in Nat : <<y, x>> \in R <=> y < x
  BY DEF OpToRel
<1> HIDE DEF R
<1>3. PICK x \in T : \A y \in T : ~(<<y, x>> \in R)
  BY <1>1, WFMin
<1>4. ASSUME NEW y \in T PROVE x <= y
  <2>1. x \in Nat /\ y \in Nat
    OBVIOUS
  <2>2. ~(y < x)
    BY <1>2, <1>3, <2>1, Zenon
  <2>3. QED
    BY <2>1, <2>2
<1>5. QED
  BY <1>4

\* What holds of 0, and of the number after each of which it holds, holds of all.
LEMMA NumberInduction ==
    \A T \in SUBSET Nat : 0 \in T /\ (\A n \in T : n + 1 \in T) => T = Nat
<1> SUFFICES ASSUME NEW T \in SUBSET Nat, 0 \in T, \A n \in T : n + 1 \in T, T # Nat PROVE FALSE
  OBVIOUS
<1>1. PICK x \in Nat \ T : \A y \in Nat \ T : x <= y
  BY LeastNumber
<1>2. x # 0 /\ x - 1 \in T
  BY <1>1
<1>3. QED
  BY <1>1, <1>2

\* n steps on the values T, and what they compute.
Steps(n, T) == [1..n -> [T -> T]]
Runs(n, T) == [0..n -> T]
IsRun(f, n, base, step) == f[0] = base /\ \A i \in 1..n : f[i] = step[i][f[i - 1]]

\* What steps compute exists.
LEMMA StepsExist ==
    ASSUME NEW T, NEW n \in Nat, NEW base \in T, NEW step \in Steps(n, T)
    PROVE  \E f \in Runs(n, T) : IsRun(f, n, base, step)
<1> USE DEF Steps, Runs, IsRun
<1> DEFINE Computes(k, f) == f[0] = base /\ \A i \in 1..k : f[i] = step[i][f[i - 1]]
           Done == {k \in Nat : k <= n => \E f \in [0..k -> T] : Computes(k, f)}
<1>1. 0 \in Done
  <2>1. [i \in 0..0 |-> base] \in [0..0 -> T] /\ Computes(0, [i \in 0..0 |-> base])
    OBVIOUS
  <2>2. QED
    BY <2>1
<1>2. ASSUME NEW k \in Done PROVE k + 1 \in Done
  <2> SUFFICES ASSUME k + 1 <= n PROVE \E g \in [0..k + 1 -> T] : Computes(k + 1, g)
    <3> HIDE DEF Computes
    <3>1. QED
      BY <1>2
  <2>1. PICK f \in [0..k -> T] : Computes(k, f)
    BY <1>2
  <2> DEFINE last == step[k + 1][f[k]]
             g == [i \in 0..k + 1 |-> IF i <= k THEN f[i] ELSE last]
  <2>2. k \in Nat /\ f[k] \in T /\ last \in T
    BY <2>1
  <2>3. g \in [0..k + 1 -> T]
    BY <2>2
  <2>4. g[0] = base /\ \A i \in 1..k : g[i] = f[i] /\ g[i - 1] = f[i - 1]
    BY <2>1, <2>2
  <2>5. g[k + 1] = step[k + 1][g[k]]
    <3>1. g[k + 1] = last /\ g[k] = f[k]
      <4> HIDE DEF last
      <4>1. ~(k + 1 <= k) /\ k <= k /\ k + 1 \in 0..k + 1 /\ k \in 0..k + 1
        BY <2>2
      <4>2. QED
        BY <4>1
    <3> HIDE DEF g
    <3>2. QED
      BY <3>1
  <2>6. \A i \in 1..k + 1 : g[i] = step[i][g[i - 1]]
    <3> HIDE DEF g
    <3>1. \A i \in 1..k + 1 : i \in 1..k \/ (i = k + 1 /\ i - 1 = k)
      BY <2>2
    <3>2. QED
      BY <2>1, <2>4, <2>5, <3>1
  <2>7. QED
    BY <2>3, <2>4, <2>6
<1> HIDE DEF Computes
<1>3. Done = Nat
  BY <1>1, <1>2, NumberInduction
<1>4. PICK f \in [0..n -> T] : Computes(n, f)
  BY <1>3
<1>5. QED
  BY <1>4 DEF Computes

\* What holds at first, and after each step when it held before, holds after all steps.
LEMMA StepsStay ==
    ASSUME NEW n \in Nat, NEW T, NEW f, f[0] \in T, \A i \in 1..n : f[i - 1] \in T => f[i] \in T
    PROVE  \A i \in 0..n : f[i] \in T
<1> DEFINE Good == {k \in Nat : k <= n => f[k] \in T}
<1>1. 0 \in Good
  OBVIOUS
<1>2. ASSUME NEW k \in Good PROVE k + 1 \in Good
  <2> SUFFICES ASSUME k + 1 <= n PROVE f[k + 1] \in T
    BY <1>2
  <2>1. f[k] \in T /\ k + 1 \in 1..n /\ (k + 1) - 1 = k
    BY <1>2
  <2>2. QED
    BY <2>1
<1>3. Good = Nat
  BY <1>1, <1>2, NumberInduction
<1>4. QED
  BY <1>3

-----------------------------------------------------------------------------
(* Annotations.                                                            *)

ZoneKeys == {ZonesKey, PlaceKey}

\* What an annotation map is with one more key.
LEMMA WithOf ==
    ASSUME NEW map \in AnnotationMaps \cup {NilMap}, NEW k \in ZoneKeys, NEW v \in Written
    PROVE  /\ With(map, k, v) \in AnnotationMaps
           /\ With(map, k, v) # NilMap
           /\ Has(With(map, k, v), k) /\ With(map, k, v)[k] = v
           /\ \A j \in ZoneKeys \ {k} : /\ Has(With(map, k, v), j) <=> Has(map, j)
                                        /\ Has(map, j) => With(map, k, v)[j] = map[j]
<1>1. \A m \in AnnotationMaps : m # NilMap
  BY ZonesAssumption DEF AnnotationMaps
<1>2. CASE map = NilMap
  <2>1. With(map, k, v) = [x \in {k} |-> v]
    BY <1>2 DEF With
  <2>2. {k} \in SUBSET {ZonesKey, PlaceKey} /\ [x \in {k} |-> v] \in [{k} -> Written]
    BY DEF ZoneKeys
  <2>3. With(map, k, v) \in AnnotationMaps
    BY <2>1, <2>2 DEF AnnotationMaps
  <2>4. QED
    BY <1>1, <1>2, <2>1, <2>3 DEF Has
<1>3. CASE map # NilMap
  <2>1. PICK keys \in SUBSET ZoneKeys : map \in [keys -> Written]
    BY <1>3 DEF AnnotationMaps, ZoneKeys
  <2>2. With(map, k, v) = [x \in {k} \cup keys |-> IF x = k THEN v ELSE map[x]]
    BY <1>3, <2>1 DEF With, Assigned
  <2>3. {k} \cup keys \in SUBSET {ZonesKey, PlaceKey}
    BY DEF ZoneKeys
  <2>4. [x \in {k} \cup keys |-> IF x = k THEN v ELSE map[x]] \in [{k} \cup keys -> Written]
    BY <2>1
  <2>5. With(map, k, v) \in AnnotationMaps
    BY <2>2, <2>3, <2>4 DEF AnnotationMaps
  <2>6. QED
    BY <1>1, <1>3, <2>1, <2>2, <2>5 DEF Has
<1>4. QED
  BY <1>2, <1>3

\* Nothing is left of a list of one when that one is taken out.
LEMMA WithoutOnlyOne == \A v : Without(<<v>>, v) = <<>>
<1> SUFFICES ASSUME NEW v PROVE Without(<<v>>, v) = <<>>
  OBVIOUS
<1> DEFINE s == <<v>>
           Kept(f) == [i \in 0..Len(s) |->
                          IF i = 0 THEN <<>> ELSE IF s[i] = v THEN f[i - 1] ELSE Append(f[i - 1], s[i])]
           kept == CHOOSE f : f = Kept(f)
<1>1. Without(s, v) = kept[Len(s)]
  BY Zenon DEF Without
<1>2. Len(s) = 1 /\ s[1] = v
  OBVIOUS
<1>3. \E f : f = Kept(f)
  <2>1. [i \in 0..1 |-> <<>>] = Kept([i \in 0..1 |-> <<>>])
    BY <1>2
  <2>2. QED
    BY <2>1
<1>4. kept = Kept(kept)
  <2> HIDE DEF Kept
  <2>1. QED
    BY <1>3, Zenon
<1> HIDE DEF kept, s
<1>5. kept[1] = (IF s[1] = v THEN kept[1 - 1] ELSE Append(kept[1 - 1], s[1])) /\ kept[0] = <<>>
  BY <1>2, <1>4
<1>6. QED
  BY <1>1, <1>2, <1>5 DEF s

\* Taking a name out of a list leaves a list.
LEMMA WithoutIsList ==
    ASSUME NEW T, NEW values \in Seq(T), NEW v
    PROVE  Without(values, v) \in Seq(T)
<1> DEFINE n == Len(values)
           Next2(list, i) == IF values[i] = v THEN list ELSE Append(list, values[i])
           step == [i \in 1..n |-> [list \in Seq(T) |-> Next2(list, i)]]
           Kept(f) == [i \in 0..n |-> IF i = 0 THEN <<>>
                                      ELSE IF values[i] = v THEN f[i - 1] ELSE Append(f[i - 1], values[i])]
           kept == CHOOSE f : f = Kept(f)
<1>1. n \in Nat /\ \A i \in 1..n : values[i] \in T
  OBVIOUS
<1>2. \A list \in Seq(T), i \in 1..n : Next2(list, i) \in Seq(T)
  BY <1>1
<1>3. step \in [1..n -> [Seq(T) -> Seq(T)]]
  BY <1>2
<1>4. <<>> \in Seq(T)
  OBVIOUS
<1>5. \E f \in Runs(n, Seq(T)) : IsRun(f, n, <<>>, step)
  <2>1. step \in Steps(n, Seq(T))
    BY <1>3 DEF Steps
  <2> HIDE DEF step, n
  <2>2. QED
    BY <1>1, <1>4, <2>1, StepsExist
<1>6. PICK f \in [0..n -> Seq(T)] : f[0] = <<>> /\ \A i \in 1..n : f[i] = Next2(f[i - 1], i)
  <2>1. PICK f \in [0..n -> Seq(T)] : f[0] = <<>> /\ \A i \in 1..n : f[i] = step[i][f[i - 1]]
    BY <1>5 DEF Runs, IsRun
  <2>2. \A i \in 1..n : f[i - 1] \in Seq(T)
    BY <1>1, <2>1
  <2>3. \A i \in 1..n : f[i] = Next2(f[i - 1], i)
    BY <2>1, <2>2
  <2>4. QED
    BY <2>1, <2>3
<1>7. f = Kept(f)
  <2>1. \A i \in 0..n : i = 0 \/ i \in 1..n
    BY <1>1
  <2>2. QED
    BY <1>6, <2>1
<1>8. kept = Kept(kept)
  <2> HIDE DEF Kept
  <2>1. QED
    BY <1>7, Zenon
<1>9. kept[0] = <<>> /\ \A i \in 1..n : kept[i] = Next2(kept[i - 1], i)
  <2> HIDE DEF kept
  <2>1. \A i \in 1..n : i \in 0..n /\ i # 0
    BY <1>1
  <2>2. 0 \in 0..n
    BY <1>1
  <2>3. QED
    BY <1>8, <2>1, <2>2
<1>10. \A i \in 0..n : kept[i] \in Seq(T)
  <2> HIDE DEF kept
  <2>1. \A i \in 1..n : kept[i - 1] \in Seq(T) => kept[i] \in Seq(T)
    BY <1>2, <1>9
  <2> HIDE DEF n
  <2>2. QED
    BY <1>1, <1>4, <1>9, <2>1, StepsStay
<1>11. Without(values, v) = kept[n]
  BY Zenon DEF Without
<1> HIDE DEF kept
<1>12. QED
  BY <1>1, <1>10, <1>11

-----------------------------------------------------------------------------
(* Chat zones.                                                             *)

Lists == Texts \cup Seq(Listed)

\* The values the player's metadata may have: what a list of zones may be is a text or
\* a list.
Typable(m) ==
    /\ m \in PlayerValues
    /\ Has(m.annotations, ZonesKey) => m.annotations[ZonesKey] \in Lists

\* The value lists zone z alone when z is a zone, and no zone otherwise.
ListsOnly(m, z) ==
    /\ HasZone(z) => Has(m.annotations, ZonesKey) /\ m.annotations[ZonesKey] = <<z>>
    /\ ~HasZone(z) /\ Has(m.annotations, ZonesKey) => m.annotations[ZonesKey] = <<>>

\* What SetAnnotation makes of a value.
LEMMA AnnotationSet ==
    ASSUME NEW m, Typable(m), NEW k \in ZoneKeys, NEW v \in Written, k = ZonesKey => v \in Lists
    PROVE  /\ Typable(SetAnnotation(m, k, v)) /\ SetAnnotation(m, k, v).annotations # NilMap
           /\ k = ZonesKey => /\ Has(SetAnnotation(m, k, v).annotations, ZonesKey)
                              /\ SetAnnotation(m, k, v).annotations[ZonesKey] = v
           /\ k # ZonesKey => \A z : ListsOnly(m, z) => ListsOnly(SetAnnotation(m, k, v), z)
<1> DEFINE map == m.annotations
           new == With(map, k, v)
<1>1. m \in PlayerValues /\ map \in AnnotationMaps \cup {NilMap}
  BY DEF Typable, PlayerValues
<1>2. /\ new \in AnnotationMaps /\ new # NilMap /\ Has(new, k) /\ new[k] = v
      /\ \A j \in ZoneKeys \ {k} : (Has(new, j) <=> Has(map, j)) /\ (Has(map, j) => new[j] = map[j])
  BY <1>1, WithOf
<1>3. SetAnnotation(m, k, v) \in PlayerValues /\ SetAnnotation(m, k, v).annotations = new
  <2> HIDE DEF new
  <2>1. SetAnnotation(m, k, v) = [m EXCEPT !.annotations = new]
    BY DEF SetAnnotation, new
  <2>2. QED
    BY <1>1, <1>2, <2>1 DEF PlayerValues
<1> HIDE DEF new
<1>4. ZonesKey \in ZoneKeys
  BY DEF ZoneKeys
<1>5. QED
  BY <1>2, <1>3, <1>4 DEF Typable, ListsOnly

\* What GetAnnotationStringSlice finds.
LEMMA SliceOf ==
    ASSUME NEW m
    PROVE  LET slice == GetAnnotationStringSlice(m, ZonesKey) IN
           /\ Typable(m) => slice.values \in Seq(Listed)
           /\ \A z : ListsOnly(m, z) => ~slice.failed /\ slice.values = IF HasZone(z) THEN <<z>> ELSE <<>>
<1> DEFINE slice == GetAnnotationStringSlice(m, ZonesKey)
<1>1. Zones \subseteq Listed
  BY DEF Listed
<1>2. CASE ~Has(m.annotations, ZonesKey)
  <2>1. slice.values = <<>> /\ slice.failed = FALSE
    BY <1>2 DEF GetAnnotationStringSlice, GetAnnotation
  <2>2. QED
    BY <1>2, <2>1 DEF ListsOnly
<1>3. CASE Has(m.annotations, ZonesKey)
  <2> DEFINE raw == m.annotations[ZonesKey]
  <2>1. /\ raw \notin Texts => ~slice.failed /\ slice.values = raw
        /\ raw \in Texts => slice.values = <<>>
    BY <1>3 DEF GetAnnotationStringSlice, GetAnnotation
  <2>2. Typable(m) => raw \in Texts \cup Seq(Listed)
    BY <1>3 DEF Typable, Lists
  <2>3. ASSUME NEW z, ListsOnly(m, z) PROVE raw \notin Texts /\ raw = IF HasZone(z) THEN <<z>> ELSE <<>>
    <3>1. raw = IF HasZone(z) THEN <<z>> ELSE <<>>
      BY <1>3, <2>3 DEF ListsOnly
    <3>2. raw \in Seq(Listed)
      BY <1>1, <3>1 DEF HasZone
    <3>3. QED
      BY <3>1, <3>2, ZonesAssumption
  <2> HIDE DEF raw, slice
  <2>4. Typable(m) => slice.values \in Seq(Listed)
    <3>1. <<>> \in Seq(Listed)
      OBVIOUS
    <3>2. raw \in Texts \/ raw \notin Texts
      OBVIOUS
    <3>3. QED
      BY <2>1, <2>2, <3>1, <3>2, Zenon
  <2>5. ASSUME NEW z, ListsOnly(m, z) PROVE ~slice.failed /\ slice.values = IF HasZone(z) THEN <<z>> ELSE <<>>
    BY <2>1, <2>3, <2>5
  <2>6. QED
    BY <2>4, <2>5 DEF slice
<1>4. QED
  BY <1>2, <1>3

\* Taking a zone out of a value.
LEMMA ZoneRemoved ==
    ASSUME NEW m, Typable(m), NEW y \in Zones
    PROVE  LET new == RemoveAnnotationStringValue(m, ZonesKey, y) IN
           /\ Typable(new)
           /\ m.annotations # NilMap => new.annotations # NilMap
           /\ \A z : ListsOnly(m, z) => IF z = y THEN ListsOnly(new, NoZone) ELSE ListsOnly(new, z)
<1> DEFINE slice == GetAnnotationStringSlice(m, ZonesKey)
           new == RemoveAnnotationStringValue(m, ZonesKey, y)
           kept == Without(slice.values, y)
<1>1. /\ slice.values \in Seq(Listed)
      /\ \A z : ListsOnly(m, z) => ~slice.failed /\ slice.values = IF HasZone(z) THEN <<z>> ELSE <<>>
  BY SliceOf
<1>2. kept \in Seq(Listed) /\ kept \in Lists /\ kept \in Written
  <2>1. kept \in Seq(Listed)
    BY <1>1, WithoutIsList
  <2>2. QED
    BY <2>1 DEF Lists, Written
<1>3. ZonesKey \in ZoneKeys
  BY DEF ZoneKeys
<1>4. \A z : ListsOnly(m, z) => (Contains(slice.values, y) <=> z = y)
  <2> SUFFICES ASSUME NEW z, ListsOnly(m, z) PROVE Contains(slice.values, y) <=> z = y
    OBVIOUS
  <2>1. CASE HasZone(z)
    <3>1. slice.values = <<z>>
      BY <1>1, <2>1
    <3>2. Contains(<<z>>, y) <=> z = y
      BY DEF Contains
    <3>3. QED
      BY <3>1, <3>2
  <2>2. CASE ~HasZone(z)
    <3>1. slice.values = <<>> /\ z # y
      BY <1>1, <2>2 DEF HasZone
    <3>2. ~Contains(<<>>, y)
      BY DEF Contains
    <3>3. QED
      BY <3>1, <3>2
  <2>3. QED
    BY <2>1, <2>2
<1>5. CASE slice.failed \/ ~Contains(slice.values, y)
  <2>1. new = m
    BY <1>5 DEF RemoveAnnotationStringValue
  <2>2. \A z : ListsOnly(m, z) => z # y
    BY <1>1, <1>4, <1>5
  <2> HIDE DEF new
  <2>3. QED
    BY <2>1, <2>2 DEF new
<1>6. CASE ~(slice.failed \/ ~Contains(slice.values, y))
  <2>1. new = SetAnnotation(m, ZonesKey, kept)
    BY <1>6 DEF RemoveAnnotationStringValue, SetAnnotationStringSlice
  <2>2. /\ Typable(new) /\ new.annotations # NilMap
        /\ Has(new.annotations, ZonesKey) /\ new.annotations[ZonesKey] = kept
    <3> HIDE DEF kept, new
    <3>1. QED
      BY <1>2, <1>3, <2>1, AnnotationSet
  <2>3. \A z : ListsOnly(m, z) => z = y /\ kept = <<>>
    <3> SUFFICES ASSUME NEW z, ListsOnly(m, z) PROVE z = y /\ kept = <<>>
      OBVIOUS
    <3>1. z = y
      BY <1>4, <1>6
    <3>2. slice.values = <<y>>
      BY <1>1, <3>1 DEF HasZone
    <3>3. QED
      BY <3>1, <3>2, WithoutOnlyOne
  <2> HIDE DEF kept, new
  <2>4. \A z : ListsOnly(m, z) => z = y /\ ListsOnly(new, NoZone)
    BY <2>2, <2>3, ZonesAssumption DEF ListsOnly, HasZone
  <2>5. QED
    BY <2>2, <2>4 DEF new
<1>7. QED
  BY <1>5, <1>6

\* Adding a zone to a value.
LEMMA ZoneAdded ==
    ASSUME NEW m, Typable(m), NEW y \in Zones
    PROVE  LET new == AddAnnotationStringValue(m, ZonesKey, y) IN
           /\ Typable(new)
           /\ m.annotations # NilMap => new.annotations # NilMap
           /\ \A z : ListsOnly(m, z) /\ ~HasZone(z) => ListsOnly(new, y)
<1> DEFINE slice == GetAnnotationStringSlice(m, ZonesKey)
           new == AddAnnotationStringValue(m, ZonesKey, y)
           more == Append(slice.values, y)
<1>1. /\ slice.values \in Seq(Listed)
      /\ \A z : ListsOnly(m, z) /\ ~HasZone(z) => ~slice.failed /\ slice.values = <<>>
  BY SliceOf
<1>2. more \in Lists /\ more \in Written
  <2>1. more \in Seq(Listed)
    BY <1>1 DEF Listed
  <2>2. QED
    BY <2>1 DEF Lists, Written
<1>3. ZonesKey \in ZoneKeys
  BY DEF ZoneKeys
<1>4. CASE slice.failed \/ Contains(slice.values, y)
  <2>1. new = m
    BY <1>4 DEF AddAnnotationStringValue
  <2>2. ~Contains(<<>>, y)
    BY DEF Contains
  <2>3. \A z : ~(ListsOnly(m, z) /\ ~HasZone(z))
    BY <1>1, <1>4, <2>2
  <2> HIDE DEF new
  <2>4. QED
    BY <2>1, <2>3 DEF new
<1>5. CASE ~(slice.failed \/ Contains(slice.values, y))
  <2>1. new = SetAnnotation(m, ZonesKey, more)
    BY <1>5 DEF AddAnnotationStringValue, SetAnnotationStringSlice
  <2>2. /\ Typable(new) /\ new.annotations # NilMap
        /\ Has(new.annotations, ZonesKey) /\ new.annotations[ZonesKey] = more
    <3> HIDE DEF more, new
    <3>1. QED
      BY <1>2, <1>3, <2>1, AnnotationSet
  <2>3. \A z : ListsOnly(m, z) /\ ~HasZone(z) => more = <<y>>
    <3>1. Append(<<>>, y) = <<y>>
      OBVIOUS
    <3>2. slice.values = <<>> => more = <<y>>
      BY <3>1
    <3> HIDE DEF slice, more
    <3>3. QED
      BY <1>1, <3>2
  <2> HIDE DEF more, new
  <2>4. \A z : ListsOnly(m, z) /\ ~HasZone(z) => ListsOnly(new, y)
    BY <2>2, <2>3 DEF ListsOnly, HasZone
  <2>5. QED
    BY <2>2, <2>4 DEF new
<1>6. QED
  BY <1>4, <1>5

\* What TrackServerConnection makes of a value: it lists the zone of the new server
\* alone, when it listed that of the server before, as the servers are known now.
LEMMA TrackedZone ==
    ASSUME NEW m, Typable(m), NEW s \in GameServers, zoneOf[s] # NotKnown
    PROVE  /\ Typable(Tracked(m, s)) /\ Tracked(m, s).annotations # NilMap
           /\ /\ ListsOnly(m, entered)
              /\ HasZone(entered) => at # Nowhere /\ zoneOf[at] = entered
              => ListsOnly(Tracked(m, s), zoneOf[s])
<1> DEFINE located == SetAnnotation(m, PlaceKey, s)
           left    == IF at # Nowhere /\ HasZone(zoneOf[at])
                      THEN RemoveAnnotationStringValue(located, ZonesKey, zoneOf[at]) ELSE located
           Usual   == /\ ListsOnly(m, entered)
                      /\ HasZone(entered) => at # Nowhere /\ zoneOf[at] = entered
<1>1. /\ Typable(located) /\ located.annotations # NilMap
      /\ \A z : ListsOnly(m, z) => ListsOnly(located, z)
  <2>1. PlaceKey \in ZoneKeys /\ s \in Written /\ PlaceKey # ZonesKey
    BY ZonesAssumption DEF ZoneKeys, Written
  <2>2. QED
    BY <2>1, AnnotationSet
<1> HIDE DEF located
<1>2. /\ Typable(left) /\ left.annotations # NilMap
      /\ Usual => ListsOnly(left, NoZone)
  <2>1. CASE at # Nowhere /\ HasZone(zoneOf[at])
    <3>1. zoneOf[at] \in Zones /\ left = RemoveAnnotationStringValue(located, ZonesKey, zoneOf[at])
      BY <2>1 DEF HasZone
    <3>2. /\ Typable(left) /\ left.annotations # NilMap
          /\ \A z : ListsOnly(located, z) => IF z = zoneOf[at] THEN ListsOnly(left, NoZone) ELSE ListsOnly(left, z)
      BY <1>1, <3>1, ZoneRemoved
    <3>3. ASSUME Usual PROVE ListsOnly(left, NoZone)
      <4> HIDE DEF left
      <4>1. CASE HasZone(entered)
        BY <1>1, <3>2, <3>3, <4>1
      <4>2. CASE ~HasZone(entered)
        <5>1. ListsOnly(left, entered)
          BY <1>1, <3>1, <3>2, <3>3, <4>2 DEF HasZone
        <5>2. QED
          BY <4>2, <5>1, ZonesAssumption DEF ListsOnly, HasZone
      <4>3. QED
        BY <4>1, <4>2
    <3>4. QED
      BY <3>2, <3>3
  <2>2. CASE ~(at # Nowhere /\ HasZone(zoneOf[at]))
    <3>1. left = located
      BY <2>2
    <3>2. Usual => ~HasZone(entered) /\ ListsOnly(located, entered)
      BY <1>1, <2>2
    <3>3. Usual => ListsOnly(located, NoZone)
      BY <3>2, ZonesAssumption DEF ListsOnly, HasZone
    <3> HIDE DEF left, Usual
    <3>4. QED
      BY <1>1, <3>1, <3>3
  <2>3. QED
    BY <2>1, <2>2
<1> HIDE DEF left, Usual
<1>3. CASE HasZone(zoneOf[s])
  <2>1. Tracked(m, s) = AddAnnotationStringValue(left, ZonesKey, zoneOf[s])
    BY <1>3 DEF Tracked, left, located
  <2>2. /\ Typable(Tracked(m, s)) /\ Tracked(m, s).annotations # NilMap
        /\ \A z : ListsOnly(left, z) /\ ~HasZone(z) => ListsOnly(Tracked(m, s), zoneOf[s])
    BY <1>2, <1>3, <2>1, ZoneAdded DEF HasZone
  <2>3. Usual => ListsOnly(Tracked(m, s), zoneOf[s])
    BY <1>2, <2>2, ZonesAssumption DEF HasZone
  <2>4. QED
    BY <2>2, <2>3 DEF Usual
<1>4. CASE ~HasZone(zoneOf[s])
  <2>1. Tracked(m, s) = left
    BY <1>4 DEF Tracked, left, located
  <2>2. ListsOnly(left, NoZone) => ListsOnly(left, zoneOf[s])
    BY <1>4, ZonesAssumption DEF ListsOnly, HasZone
  <2>3. QED
    BY <1>2, <2>1, <2>2 DEF Usual
<1>5. QED
  BY <1>3, <1>4

\* While every step since the value was made was tracked, the value lists the zone of
\* the server the player is on, as it was when the player came; and a value that the
\* proxy made has a map.
ZonesInv ==
    /\ player # NotCached => Typable(player)
    /\ HasZone(entered) => at # Nowhere
    /\ tracked /\ ~typed => ListsOnly(Current, entered)
    /\ player # NotCached /\ ~bare => player.annotations # NilMap

\* A value without annotations.
LEMMA FreshTypable == Typable(Fresh) /\ ListsOnly(Fresh, NoZone) /\ Fresh.annotations # NilMap
<1>1. <<>> \in [{} -> Written] /\ {} \in SUBSET {ZonesKey, PlaceKey}
  OBVIOUS
<1>2. <<>> \in AnnotationMaps /\ <<>> # NilMap
  BY <1>1, ZonesAssumption DEF AnnotationMaps
<1>3. ~Has(<<>>, ZonesKey)
  BY DEF Has
<1>4. Fresh \in PlayerValues /\ Fresh.annotations = <<>>
  BY <1>2 DEF Fresh, PlayerValues
<1>5. QED
  BY <1>2, <1>3, <1>4, ZonesAssumption DEF Typable, ListsOnly, HasZone

\* At first the player is nowhere.
LEMMA InitZonesInv == ZonesInit => ZonesInv
BY FreshTypable, ZonesAssumption DEF ZonesInit, ZonesInv, Current, HasZone

\* Every step keeps it.
LEMMA NextZonesInv == ZonesInv /\ [ZonesNext]_zoneVars => ZonesInv'
<1> SUFFICES ASSUME ZonesInv, [ZonesNext]_zoneVars PROVE ZonesInv'
  OBVIOUS
<1>1. Typable(Current) /\ (player = NotCached => Current = Fresh) /\ (player # NotCached => Current = player)
  BY FreshTypable DEF ZonesInv, Current
<1>2. \A m : Typable(m) => m # NotCached
  BY ZonesAssumption DEF Typable
<1>3. ~HasZone(NoZone) /\ ~HasZone(NotKnown)
  BY ZonesAssumption DEF HasZone
<1>4. ASSUME NEW s \in GameServers, TrackServerConnection(s) PROVE ZonesInv'
  <2>1. /\ at' = s /\ entered' = zoneOf[s] /\ UNCHANGED typed
        /\ player' = IF zoneOf[s] = NotKnown THEN player ELSE Tracked(Current, s)
        /\ tracked' = (tracked /\ zoneOf[s] # NotKnown
                               /\ (at # Nowhere /\ HasZone(entered) => zoneOf[at] = entered))
        /\ bare' = (bare /\ zoneOf[s] = NotKnown)
    BY <1>4 DEF TrackServerConnection
  <2>2. at' # Nowhere
    BY <2>1, ZonesAssumption
  <2>3. CASE zoneOf[s] = NotKnown
    BY <2>1, <2>2, <2>3 DEF ZonesInv
  <2>4. CASE zoneOf[s] # NotKnown
    <3>1. player' = Tracked(Current, s)
      BY <2>1, <2>4
    <3>2. /\ Typable(player') /\ player'.annotations # NilMap
          /\ /\ ListsOnly(Current, entered)
             /\ HasZone(entered) => at # Nowhere /\ zoneOf[at] = entered
             => ListsOnly(player', entered')
      BY <1>1, <2>1, <2>4, <3>1, TrackedZone
    <3>3. Current' = player'
      BY <1>2, <3>2 DEF Current
    <3>4. tracked' /\ ~typed' => ListsOnly(player', entered')
      <4>1. tracked' /\ ~typed' => /\ ListsOnly(Current, entered)
                                   /\ HasZone(entered) => at # Nowhere /\ zoneOf[at] = entered
        BY <2>1 DEF ZonesInv
      <4>2. QED
        BY <3>2, <4>1
    <3>5. QED
      BY <2>2, <3>2, <3>3, <3>4 DEF ZonesInv
  <2>5. QED
    BY <2>3, <2>4
<1>5. CASE TrackDisconnect
  <2>1. PICK meta \in {player, NotCached} :
          /\ player' = meta /\ entered' = NoZone
          /\ tracked' = (meta = NotCached \/ (tracked /\ ~HasZone(entered)))
          /\ typed' = (typed /\ meta # NotCached)
          /\ bare' = (bare /\ meta # NotCached)
    BY <1>5 DEF TrackDisconnect
  <2>2. CASE meta = NotCached
    <3>1. Current' = Fresh
      BY <2>1, <2>2 DEF Current
    <3>2. QED
      BY <1>3, <2>1, <2>2, <3>1, FreshTypable DEF ZonesInv
  <2>3. CASE meta # NotCached
    <3>1. meta = player /\ Current' = Current
      BY <2>1, <2>3 DEF Current
    <3>2. tracked' /\ ~typed' => ListsOnly(Current, entered) /\ ~HasZone(entered)
      BY <2>1, <2>3 DEF ZonesInv
    <3>3. ListsOnly(Current, entered) /\ ~HasZone(entered) => ListsOnly(Current, NoZone)
      BY <1>3 DEF ListsOnly
    <3>4. QED
      BY <1>3, <2>1, <2>3, <3>1, <3>2, <3>3 DEF ZonesInv
  <2>4. QED
    BY <2>2, <2>3
<1>6. ASSUME NEW v \in TypedValues, CommandSets(v) PROVE ZonesInv'
  <2> DEFINE new == Assigned(player.annotations, ZonesKey, v)
  <2>1. /\ player # NotCached /\ player.annotations # NilMap /\ typed' = TRUE
        /\ player' = [player EXCEPT !.annotations = new]
        /\ UNCHANGED <<entered, at>>
    BY <1>6 DEF CommandSets
  <2>2. new = With(player.annotations, ZonesKey, v)
    BY <2>1 DEF With
  <2>3. player' = SetAnnotation(player, ZonesKey, v)
    <3> HIDE DEF new
    <3>1. QED
      BY <2>1, <2>2 DEF SetAnnotation
  <2>4. v \in Lists /\ v \in Written /\ ZonesKey \in ZoneKeys /\ Typable(player)
    BY <2>1, ZonesAssumption DEF Lists, Written, ZoneKeys, ZonesInv
  <2>5. Typable(player') /\ player'.annotations # NilMap
    BY <2>3, <2>4, AnnotationSet
  <2>6. QED
    BY <2>1, <2>5 DEF ZonesInv
<1>7. CASE ForeignPut
  <2>1. /\ player' = [labels |-> NilMap, annotations |-> NilMap] /\ tracked' = FALSE /\ bare' = TRUE
        /\ UNCHANGED <<entered, at>>
    BY <1>7 DEF ForeignPut
  <2>2. Typable(player')
    BY <2>1 DEF Typable, PlayerValues, Has
  <2>3. QED
    BY <2>1, <2>2 DEF ZonesInv
<1>8. ASSUME NEW s \in GameServers, NEW z, ServerChanges(s, z) PROVE ZonesInv'
  BY <1>8 DEF ServerChanges, ZonesInv, Current
<1>9. CASE UNCHANGED zoneVars
  BY <1>9 DEF zoneVars, ZonesInv, Current
<1>10. QED
  BY <1>4, <1>5, <1>6, <1>7, <1>8, <1>9 DEF ZonesNext

\* It holds in every state.
LEMMA ZonesInvariant == ZonesSpec => []ZonesInv
BY InitZonesInv, NextZonesInv, PTL DEF ZonesSpec

\* The player listens to the zone of the server it is on, once, and to no other, while
\* every step was tracked.
THEOREM ZonesAlwaysFollowServer == ZonesSpec => []ZonesFollowServer
<1>1. ZonesInv => ZonesFollowServer
  <2> SUFFICES ASSUME ZonesInv, tracked, ~typed
               PROVE  /\ ~ListensTo.failed /\ Len(ListensTo.values) <= 1
                      /\ \A z \in Zones : Contains(ListensTo.values, z) <=> z = entered
    BY DEF ZonesFollowServer, HasAnnotationStringValue, ListensTo
  <2>1. ~ListensTo.failed /\ ListensTo.values = IF HasZone(entered) THEN <<entered>> ELSE <<>>
    BY SliceOf DEF ZonesInv, ListensTo
  <2>2. CASE HasZone(entered)
    <3>1. Len(<<entered>>) = 1 /\ \A z : Contains(<<entered>>, z) <=> z = entered
      BY DEF Contains
    <3>2. QED
      BY <2>1, <2>2, <3>1
  <2>3. CASE ~HasZone(entered)
    <3>1. Len(<<>>) = 0 /\ \A z : ~Contains(<<>>, z)
      BY DEF Contains
    <3>2. QED
      BY <2>1, <2>3, <3>1 DEF HasZone
  <2>4. QED
    BY <2>2, <2>3
<1>2. QED
  BY <1>1, ZonesInvariant, PTL

\* A command finds a map to write to, unless the value is another writer's.
THEOREM CommandsAlwaysFindMap == ZonesSpec => []CommandsFindMap
<1>1. ZonesInv => CommandsFindMap
  BY DEF ZonesInv, CommandsFindMap
<1>2. QED
  BY <1>1, ZonesInvariant, PTL

-----------------------------------------------------------------------------
(* Permission checks.  What Enforce finds in a list of rules is described  *)
(* without its loop: a rule refuses a request, or one allows it.           *)

Verdicts == {"open", "allowed", "denied", "failed"}
Refusals == {"denied", "failed"}
Allows(req, rule) == Matcher(req, rule) = "yes" /\ rule.eft = "allow"
Refuses(req, rule) == Matcher(req, rule) = "error" \/ (Matcher(req, rule) = "yes" /\ rule.eft = "deny")

\* The matcher says yes or no, or fails.
LEMMA MatcherAnswers == \A req, rule : Matcher(req, rule) \in {"yes", "no", "error"}
<1> TAKE req, rule
<1> DEFINE sub == EvalSubjectAttributes(req.sub, rule.sub)
           obj == EvalObjectAttributes(req.sub, req.obj, rule.obj)
<1>1. \A e, given, meta : Evaluate(e, given, meta) \in {"yes", "no", "error"}
  BY DEF Evaluate
<1>2. \A logic : Literal(logic) \in {"yes", "no", "error"}
  BY DEF Literal
<1>3. sub \in {"yes", "no", "error"} /\ obj \in {"yes", "no", "error"}
  BY <1>1, <1>2, Zenon DEF EvalSubjectAttributes, SaysOfSubject, EvalObjectAttributes
<1>4. Matcher(req, rule) = IF sub # "yes" THEN sub
                           ELSE IF obj # "yes" THEN obj
                           ELSE IF rule.act \in {req.act, AnyAction} THEN "yes" ELSE "no"
  BY Zenon DEF Matcher
<1> HIDE DEF sub, obj
<1>5. QED
  BY <1>3, <1>4

\* One rule: a refusal stands, a rule that refuses makes one, and the verdict
\* is "allowed" when nothing refuses and this rule or an earlier one allows.
LEMMA EffectOfRule ==
    \A req, rule : \A v \in Verdicts :
        /\ Effect(req, v, rule) \in Verdicts
        /\ Effect(req, v, rule) \in Refusals <=> v \in Refusals \/ Refuses(req, rule)
        /\ Effect(req, v, rule) = "allowed" <=>
              v \notin Refusals /\ ~Refuses(req, rule) /\ (v = "allowed" \/ Allows(req, rule))
<1> TAKE req, rule
<1>1. Matcher(req, rule) \in {"yes", "no", "error"}
  BY MatcherAnswers
<1>2. QED
  BY <1>1 DEF Effect, Refuses, Allows, Verdicts, Refusals

\* The loop of Enforce exists, and goes from each rule to the next.
LEMMA EnforceRuns ==
    ASSUME NEW T, NEW list \in Seq(T), NEW req, list # <<>>, EffectKnown
    PROVE  \E f \in Runs(Len(list), Verdicts) :
               /\ f[0] = "open"
               /\ \A i \in 1..Len(list) : f[i] = Effect(req, f[i - 1], list[i])
               /\ Enforce(req, list) = f[Len(list)]
<1> DEFINE n == Len(list)
           step == [i \in 1..n |-> [v \in Verdicts |-> Effect(req, v, list[i])]]
           Decided(f) == [i \in 0..n |-> IF i = 0 THEN "open" ELSE Effect(req, f[i - 1], list[i])]
           verdict == CHOOSE f : f = Decided(f)
<1>1. n \in Nat
  OBVIOUS
<1>2. \A i \in 1..n : \A v \in Verdicts : Effect(req, v, list[i]) \in Verdicts
  BY EffectOfRule
<1>3. step \in [1..n -> [Verdicts -> Verdicts]]
  BY <1>2
<1>4. "open" \in Verdicts
  BY DEF Verdicts
<1>5. \E f \in Runs(n, Verdicts) : IsRun(f, n, "open", step)
  <2>1. step \in Steps(n, Verdicts)
    BY <1>3 DEF Steps
  <2> HIDE DEF step, n
  <2>2. QED
    BY <1>1, <1>4, <2>1, StepsExist
<1>6. PICK f \in [0..n -> Verdicts] : f[0] = "open" /\ \A i \in 1..n : f[i] = Effect(req, f[i - 1], list[i])
  <2>1. PICK f \in [0..n -> Verdicts] : f[0] = "open" /\ \A i \in 1..n : f[i] = step[i][f[i - 1]]
    BY <1>5 DEF Runs, IsRun
  <2>2. \A i \in 1..n : f[i - 1] \in Verdicts
    BY <1>1, <2>1
  <2>3. \A i \in 1..n : f[i] = Effect(req, f[i - 1], list[i])
    BY <2>1, <2>2
  <2>4. QED
    BY <2>1, <2>3
<1>7. f = Decided(f)
  <2>1. \A i \in 0..n : i = 0 \/ i \in 1..n
    BY <1>1
  <2>2. QED
    BY <1>6, <2>1
<1>8. verdict = Decided(verdict)
  <2> HIDE DEF Decided
  <2>1. QED
    BY <1>7, Zenon
<1>9. verdict[0] = "open" /\ \A i \in 1..n : verdict[i] = Effect(req, verdict[i - 1], list[i])
  <2> HIDE DEF verdict
  <2>1. \A i \in 1..n : i \in 0..n /\ i # 0
    BY <1>1
  <2>2. 0 \in 0..n
    BY <1>1
  <2>3. QED
    BY <1>8, <2>1, <2>2
<1>10. \A i \in 0..n : verdict[i] \in Verdicts
  <2> HIDE DEF verdict
  <2>1. \A i \in 1..n : verdict[i - 1] \in Verdicts => verdict[i] \in Verdicts
    BY <1>2, <1>9
  <2> HIDE DEF n
  <2>2. QED
    BY <1>1, <1>4, <1>9, <2>1, StepsStay
<1>11. Enforce(req, list) = verdict[n]
  BY Zenon DEF Enforce
<1>12. verdict \in [0..n -> Verdicts]
  <2>1. \A g : Decided(g) = [i \in 0..n |-> Decided(g)[i]]
    OBVIOUS
  <2>2. verdict = [i \in 0..n |-> verdict[i]]
    <3> HIDE DEF verdict, Decided
    <3>1. QED
      BY <1>8, <2>1
  <2> HIDE DEF verdict
  <2>3. QED
    BY <1>10, <2>2
<1> HIDE DEF verdict
<1>13. QED
  BY <1>9, <1>11, <1>12 DEF Runs

\* What Enforce finds: a refusal exactly when a rule refuses, and that the
\* request is allowed exactly when none refuses and one allows.
LEMMA EnforceFinds ==
    ASSUME NEW T, NEW list \in Seq(T), NEW req, list # <<>>, EffectKnown
    PROVE  /\ Enforce(req, list) \in Refusals <=> \E i \in 1..Len(list) : Refuses(req, list[i])
           /\ Enforce(req, list) = "allowed" <=>
                 /\ \A i \in 1..Len(list) : ~Refuses(req, list[i])
                 /\ \E i \in 1..Len(list) : Allows(req, list[i])
<1> DEFINE n == Len(list)
<1>1. n \in Nat
  OBVIOUS
<1>2. PICK f \in Runs(n, Verdicts) :
         /\ f[0] = "open"
         /\ \A i \in 1..n : f[i] = Effect(req, f[i - 1], list[i])
         /\ Enforce(req, list) = f[n]
  BY EnforceRuns
<1> HIDE DEF n
<1>3. \A i \in 0..n : f[i] \in Verdicts
  BY <1>1, <1>2 DEF Runs
<1> DEFINE Found(k) == /\ f[k] \in Refusals <=> \E i \in 1..k : Refuses(req, list[i])
                       /\ f[k] = "allowed" <=> /\ \A i \in 1..k : ~Refuses(req, list[i])
                                               /\ \E i \in 1..k : Allows(req, list[i])
           Good == {k \in Nat : k <= n => Found(k)}
<1>4. 0 \in Good
  <2>1. 1..0 = {} /\ f[0] = "open"
    BY <1>2
  <2>2. Found(0)
    BY <2>1 DEF Refusals
  <2> HIDE DEF Found
  <2>3. QED
    BY <2>2
<1>5. ASSUME NEW k \in Good PROVE k + 1 \in Good
  <2> SUFFICES ASSUME k + 1 <= n PROVE Found(k + 1)
    <3> HIDE DEF Found
    <3>1. QED
      BY <1>5
  <2>1. k \in Nat /\ k \in 0..n /\ k + 1 \in 1..n /\ (k + 1) - 1 = k
    BY <1>1
  <2>2. Found(k)
    <3> HIDE DEF Found
    <3>1. QED
      BY <1>1, <2>1
  <2>3. f[k + 1] = Effect(req, f[k], list[k + 1]) /\ f[k] \in Verdicts
    BY <1>2, <1>3, <2>1
  <2>4. 1..k + 1 = (1..k) \cup {k + 1}
    BY <2>1
  <2>5. /\ f[k + 1] \in Refusals <=> f[k] \in Refusals \/ Refuses(req, list[k + 1])
        /\ f[k + 1] = "allowed" <=>
              /\ f[k] \notin Refusals /\ ~Refuses(req, list[k + 1])
              /\ f[k] = "allowed" \/ Allows(req, list[k + 1])
    <3>1. /\ Effect(req, f[k], list[k + 1]) \in Refusals <=> f[k] \in Refusals \/ Refuses(req, list[k + 1])
          /\ Effect(req, f[k], list[k + 1]) = "allowed" <=>
                /\ f[k] \notin Refusals /\ ~Refuses(req, list[k + 1])
                /\ f[k] = "allowed" \/ Allows(req, list[k + 1])
      BY <2>3, EffectOfRule
    <3>2. QED
      BY <2>3, <3>1
  <2>6. (\E i \in 1..k + 1 : Refuses(req, list[i])) <=>
           (\E i \in 1..k : Refuses(req, list[i])) \/ Refuses(req, list[k + 1])
    BY <2>4, Zenon
  <2>7. (\E i \in 1..k + 1 : Allows(req, list[i])) <=>
           (\E i \in 1..k : Allows(req, list[i])) \/ Allows(req, list[k + 1])
    BY <2>4, Zenon
  <2>8. QED
    BY <2>2, <2>5, <2>6, <2>7
<1>6. Good = Nat
  BY <1>4, <1>5, NumberInduction
<1>7. Found(n)
  <2> HIDE DEF Found
  <2>1. QED
    BY <1>1, <1>6
<1>8. QED
  BY <1>2, <1>7 DEF n

\* An order of n rules reaches each of them.
LEMMA OrdersReach == \A n \in Nat : \A p \in Orders(n) : \A j \in 1..n : \E i \in 1..n : p[i] = j
<1> SUFFICES ASSUME NEW n \in Nat, NEW p \in Orders(n) PROVE \A j \in 1..n : \E i \in 1..n : p[i] = j
  OBVIOUS
<1>1. p \in Injection(1..n, 1..n)
  BY DEF Orders, Injection, IsInjective
<1>2. IsFiniteSet(1..n)
  BY FS_Interval
<1>3. p \in Surjection(1..n, 1..n)
  BY <1>1, <1>2, FS_Injection
<1>4. QED
  BY <1>3 DEF Surjection

\* Every rule is in a reordered list, and no other.
LEMMA ReorderedRules ==
    ASSUME NEW list \in Seq(PolicyRules), NEW p \in Orders(Len(list))
    PROVE  /\ Reordered(list, p) \in Seq(PolicyRules) /\ Len(Reordered(list, p)) = Len(list)
           /\ \A i \in 1..Len(list) : \E j \in 1..Len(list) : Reordered(list, p)[j] = list[i]
           /\ \A j \in 1..Len(list) : \E i \in 1..Len(list) : Reordered(list, p)[j] = list[i]
<1> DEFINE n == Len(list)
           other == Reordered(list, p)
<1>1. n \in Nat /\ DOMAIN list = 1..n /\ \A i \in 1..n : list[i] \in PolicyRules
  OBVIOUS
<1>2. p \in [1..n -> 1..n]
  BY DEF Orders
<1>3. other = [i \in 1..n |-> list[p[i]]]
  BY <1>1 DEF Reordered
<1>4. other \in [1..n -> PolicyRules]
  BY <1>1, <1>2, <1>3
<1>5. \A j \in 1..n : \E i \in 1..n : p[i] = j
  BY <1>1, OrdersReach
<1> HIDE DEF n, other
<1>6. other \in Seq(PolicyRules) /\ Len(other) = n
  BY <1>1, <1>4
<1>7. \A i \in 1..n : \E j \in 1..n : other[j] = list[i]
  BY <1>3, <1>5
<1>8. \A j \in 1..n : \E i \in 1..n : other[j] = list[i]
  BY <1>2, <1>3
<1>9. QED
  BY <1>6, <1>7, <1>8 DEF n, other

\* A list that gains a rule keeps those it had.
LEMMA InsertedRules ==
    ASSUME NEW list \in Seq(PolicyRules), NEW i \in 1..Len(list) + 1, NEW r \in PolicyRules
    PROVE  /\ InsertAt(list, i, r) \in Seq(PolicyRules)
           /\ Len(InsertAt(list, i, r)) = Len(list) + 1
           /\ \A k \in 1..Len(list) : \E j \in 1..Len(list) + 1 : InsertAt(list, i, r)[j] = list[k]
<1> DEFINE n == Len(list)
           before == SubSeq(list, 1, i - 1)
           after == SubSeq(list, i, n)
           upTo == before \o <<r>>
           longer == upTo \o after
<1>1. n \in Nat /\ i \in 1..n + 1
  OBVIOUS
<1>2. before \in Seq(PolicyRules) /\ Len(before) = i - 1 /\ \A k \in 1..i - 1 : before[k] = list[k]
  BY <1>1
<1>3. after \in Seq(PolicyRules) /\ Len(after) = n + 1 - i
      /\ \A k \in 1..n + 1 - i : after[k] = list[i + k - 1]
  BY <1>1
<1>4. InsertAt(list, i, r) = longer
  BY DEF InsertAt
<1> HIDE DEF before, after, n
<1>5. upTo \in Seq(PolicyRules) /\ Len(upTo) = i /\ \A k \in 1..i - 1 : upTo[k] = list[k]
  BY <1>1, <1>2
<1> HIDE DEF upTo
<1>6. longer \in Seq(PolicyRules) /\ Len(longer) = n + 1 /\ \A k \in 1..i - 1 : longer[k] = list[k]
  <2>1. longer \in Seq(PolicyRules)
    BY <1>3, <1>5
  <2>2. Len(longer) = Len(upTo) + Len(after)
    <3>1. \A s, t \in Seq(PolicyRules) : Len(s \o t) = Len(s) + Len(t)
      OBVIOUS
    <3> HIDE DEF after
    <3>2. QED
      BY <1>3, <1>5, <3>1, Zenon
  <2>3. \A k \in 1..Len(upTo) : longer[k] = upTo[k]
    BY <1>3, <1>5
  <2> HIDE DEF longer
  <2>4. QED
    BY <1>1, <1>3, <1>5, <2>1, <2>2, <2>3
<1>7. \A k \in i..n : longer[k + 1] = list[k]
  <2> SUFFICES ASSUME NEW k \in i..n PROVE longer[k + 1] = list[k]
    OBVIOUS
  <2>1. k + 1 - i \in 1..n + 1 - i /\ i + (k + 1 - i) - 1 = k
    BY <1>1
  <2>2. longer[k + 1] = after[k + 1 - i]
    BY <1>1, <1>3, <1>5
  <2>3. QED
    BY <1>3, <2>1, <2>2
<1> HIDE DEF longer
<1>8. ASSUME NEW k \in 1..n PROVE \E j \in 1..n + 1 : longer[j] = list[k]
  <2>1. CASE k < i
    BY <1>1, <1>6, <2>1
  <2>2. CASE k >= i
    <3>1. k \in i..n /\ k + 1 \in 1..n + 1
      BY <1>1, <2>2
    <3>2. QED
      BY <1>7, <3>1
  <2>3. QED
    BY <1>1, <2>1, <2>2
<1>9. QED
  BY <1>4, <1>6, <1>8 DEF n

RulesInv == rules \in Seq(PolicyRules)

\* The enforcer holds a list of rules, however often it is loaded.
LEMMA RulesInvariant == MatcherSpec => []RulesInv
<1>1. MatcherInit => RulesInv
  BY DEF MatcherInit, RulesInv
<1>2. RulesInv /\ [MatcherNext]_matcherVars => RulesInv'
  <2> SUFFICES ASSUME RulesInv, [MatcherNext]_matcherVars PROVE RulesInv'
    OBVIOUS
  <2>1. CASE LoadPolicy
    BY <2>1, InsertedRules DEF LoadPolicy, RulesInv
  <2>2. CASE InitCasbin
    BY <2>2 DEF InitCasbin, RulesInv
  <2>3. CASE UNCHANGED matcherVars
    BY <2>3 DEF matcherVars, RulesInv
  <2>4. QED
    BY <2>1, <2>2, <2>3 DEF MatcherNext
<1>3. QED
  BY <1>1, <1>2, PTL DEF MatcherSpec

\* Whatever rules are loaded, and in whatever order: which requests are
\* allowed does not depend on it, although Enforce stops at the first rule
\* that fails or denies.
THEOREM DecisionNeverDependsOnOrder == MatcherSpec => []DecisionIgnoresOrder
<1>1. RulesInv => DecisionIgnoresOrder
  <2> SUFFICES ASSUME RulesInv, NEW req \in Requests, NEW p \in Orders(Len(rules))
               PROVE  (Enforce(req, rules) = "allowed") <=> (Enforce(req, Reordered(rules, p)) = "allowed")
    BY DEF DecisionIgnoresOrder
  <2> DEFINE n == Len(rules)
             other == Reordered(rules, p)
  <2>1. rules \in Seq(PolicyRules) /\ n \in Nat
    BY DEF RulesInv
  <2>2. /\ other \in Seq(PolicyRules) /\ Len(other) = n
        /\ \A i \in 1..n : \E j \in 1..n : other[j] = rules[i]
        /\ \A j \in 1..n : \E i \in 1..n : other[j] = rules[i]
    BY <2>1, ReorderedRules
  <2> HIDE DEF other
  <2>3. rules = <<>> <=> other = <<>>
    BY <2>1, <2>2
  <2>4. CASE rules = <<>> \/ ~EffectKnown
    BY <2>3, <2>4 DEF Enforce, other
  <2>5. CASE rules # <<>> /\ EffectKnown
    <3>1. Enforce(req, rules) = "allowed" <=>
             /\ \A i \in 1..n : ~Refuses(req, rules[i])
             /\ \E i \in 1..n : Allows(req, rules[i])
      BY <2>1, <2>5, EnforceFinds
    <3>2. Enforce(req, other) = "allowed" <=>
             /\ \A i \in 1..n : ~Refuses(req, other[i])
             /\ \E i \in 1..n : Allows(req, other[i])
      BY <2>2, <2>3, <2>5, EnforceFinds
    <3> HIDE DEF n
    <3>3. (\A i \in 1..n : ~Refuses(req, rules[i])) <=> (\A i \in 1..n : ~Refuses(req, other[i]))
      BY <2>2
    <3>4. (\E i \in 1..n : Allows(req, rules[i])) <=> (\E i \in 1..n : Allows(req, other[i]))
      BY <2>2
    <3>5. QED
      BY <3>1, <3>2, <3>3, <3>4 DEF other
  <2>6. QED
    BY <2>4, <2>5
<1>2. QED
  BY <1>1, RulesInvariant, PTL

\* Whatever is added to the stored rules, wherever it is put: what a rule
\* denies, or fails in, stays refused.
THEOREM RefusalsAlwaysStand == MatcherSpec => RefusalsStand
<1> DEFINE Stands(req) == ready /\ rules # <<>> /\ Enforce(req, rules) \in {"denied", "failed"} =>
                             ~HasPermission(req)'
<1>1. ASSUME RulesInv, RulesInv', [MatcherNext]_matcherVars, ~(UNCHANGED matcherVars), NEW req \in Requests
      PROVE  Stands(req)
  <2> SUFFICES ASSUME ready, rules # <<>>, Enforce(req, rules) \in {"denied", "failed"}
               PROVE  ~(ready' /\ Enforce(req, rules') = "allowed")
    BY Zenon DEF HasPermission
  <2>1. CASE InitCasbin
    BY <2>1 DEF InitCasbin
  <2>2. CASE LoadPolicy /\ EffectKnown
    <3>1. PICK r \in PolicyRules, i \in 1..Len(rules) + 1 : rules' = InsertAt(rules, i, r)
      BY <2>2 DEF LoadPolicy
    <3>2. rules \in Seq(PolicyRules) /\ Len(rules) \in Nat
      BY <1>1 DEF RulesInv
    <3>3. /\ rules' \in Seq(PolicyRules) /\ Len(rules') = Len(rules) + 1
          /\ \A k \in 1..Len(rules) : \E j \in 1..Len(rules) + 1 : rules'[j] = rules[k]
      BY <3>1, <3>2, InsertedRules
    <3>4. rules' # <<>>
      BY <3>2, <3>3
    <3>5. PICK k \in 1..Len(rules) : Refuses(req, rules[k])
      BY <2>2, <3>2, EnforceFinds DEF Refusals
    <3>6. \E j \in 1..Len(rules') : Refuses(req, rules'[j])
      BY <3>3, <3>5
    <3>7. QED
      BY <2>2, <3>3, <3>4, <3>6, EnforceFinds
  <2>3. CASE ~EffectKnown
    BY <2>3 DEF Enforce
  <2>4. QED
    BY <1>1, <2>1, <2>2, <2>3 DEF MatcherNext
<1>2. RulesInv /\ RulesInv' /\ [MatcherNext]_matcherVars => [\A req \in Requests : Stands(req)]_matcherVars
  BY <1>1
<1>3. QED
  BY <1>2, RulesInvariant, PTL DEF MatcherSpec, RefusalsStand

\* An expression that matches where no map has an entry reads none: it matches
\* whatever the maps hold.
LEMMA NothingMissingWasRead ==
    ASSUME NEW e, NEW given, NEW emptyMeta, NEW meta,
           emptyMeta = NoMetadata \/ \A map \in Maps : emptyMeta[map] \in {<<>>, NilMap},
           Evaluate(e, given, emptyMeta) = "yes"
    PROVE  Evaluate(e, given, meta) = "yes"
<1>1. \A x : x.from \in Maps => ~InMap(x, emptyMeta)
  BY DEF InMap, Has
<1>2. \A x : Supplied(x, given, emptyMeta) =>
          Supplied(x, given, meta) /\ Read(x, given, meta) = Read(x, given, emptyMeta)
  BY <1>1 DEF Supplied, Read, Maps
<1>3. \A t : Try(t, given, emptyMeta) # "fails" => Try(t, given, meta) = Try(t, given, emptyMeta)
  BY <1>2, Zenon DEF Try
<1>4. Outcome(e, given, emptyMeta) = "true" /\ e # Unparsed /\ e.op # "value"
  BY DEF Evaluate
<1>5. Outcome(e, given, meta) = "true"
  BY <1>3, <1>4 DEF Outcome
<1>6. QED
  BY <1>4, <1>5 DEF Evaluate

\* Whatever rules are loaded: a subject of which the proxy has nothing is allowed
\* something only by a rule that allows it whatever its metadata.
THEOREM MissingMetadataNeverAllows == MatcherSpec => []MissingMetadataAllowsNothing
<1>1. RulesInv => MissingMetadataAllowsNothing
  <2> SUFFICES ASSUME RulesInv, NEW req \in Requests, HasPermission(req), Unknown(req.sub)
               PROVE  \E i \in DOMAIN rules :
                         /\ rules[i].eft = "allow" /\ Matcher(req, rules[i]) = "yes"
                         /\ \A meta \in MetaValues : SaysOfSubject(req.sub, rules[i].sub, meta) = "yes"
    BY DEF MissingMetadataAllowsNothing
  <2>1. rules \in Seq(PolicyRules) /\ Enforce(req, rules) = "allowed"
    BY DEF RulesInv, HasPermission
  <2>2. rules # <<>> /\ EffectKnown
    BY <2>1 DEF Enforce
  <2>3. PICK i \in 1..Len(rules) : Matcher(req, rules[i]) = "yes" /\ rules[i].eft = "allow"
    BY <2>1, <2>2, EnforceFinds DEF Allows
  <2>4. EvalSubjectAttributes(req.sub, rules[i].sub) = "yes"
    BY <2>3 DEF Matcher
  <2> DEFINE emptyMeta == IF req.sub \in OtherIds THEN NoMetadata ELSE PlayerMeta[req.sub]
             given == [uuid |-> req.sub, inGroup |-> GroupsOf[req.sub]]
  <2>5. emptyMeta = NoMetadata \/ \A map \in Maps : emptyMeta[map] \in {<<>>, NilMap}
    BY DEF Unknown
  <2>6. SaysOfSubject(req.sub, rules[i].sub, emptyMeta) = "yes"
    BY <2>4 DEF EvalSubjectAttributes
  <2>7. ASSUME NEW meta \in MetaValues PROVE SaysOfSubject(req.sub, rules[i].sub, meta) = "yes"
    <3>1. CASE rules[i].sub \in {Always, Never}
      BY <2>6, <3>1 DEF SaysOfSubject
    <3>2. CASE rules[i].sub \notin {Always, Never}
      <4>1. req.sub \notin OtherIds /\ Evaluate(rules[i].sub, given, emptyMeta) = "yes"
        BY <2>6, <3>2 DEF SaysOfSubject
      <4> HIDE DEF emptyMeta, given
      <4>2. Evaluate(rules[i].sub, given, meta) = "yes"
        BY <2>5, <4>1, NothingMissingWasRead
      <4>3. QED
        BY <3>2, <4>1, <4>2 DEF SaysOfSubject, given
    <3>3. QED
      BY <3>1, <3>2
  <2>8. i \in DOMAIN rules
    BY <2>1
  <2>9. QED
    BY <2>3, <2>7, <2>8
<1>2. QED
  BY <1>1, RulesInvariant, PTL

-----------------------------------------------------------------------------
(* MiniMessage.  A gradient first: arithmetic.                             *)

\* A quotient is below a bound when the number is below its multiple.
LEMMA QuotientBelow == \A a, b \in Nat, c \in Nat \ {0} : a < b * c => a \div c < b
  OBVIOUS

\* A number is its quotient's multiple and the rest.
LEMMA QuotientAndRest ==
    \A a \in Nat, b \in Nat \ {0} :
        a \div b \in Nat /\ a % b \in 0..b - 1 /\ a = (a \div b) * b + (a % b)
  OBVIOUS

\* Products grow with their factors.
LEMMA ProductGrows == \A a, b, c \in Nat : a <= b => a * c <= b * c
  OBVIOUS

\* Strictly, when the other factor is not 0.
LEMMA ProductGrowsStrictly == \A a, b \in Nat, c \in Nat \ {0} : a < b => a * c < b * c
  OBVIOUS

\* The pieces a string may have, and those the proxy writes into its answers.
Own == {Hue, Bold, End, Faded(2), Faded(3)}
AnyPieces == Pieces \cup Own

\* What the answers' own pieces are: tags that end, and two gradients with
\* colours enough.
LEMMA OwnPieces ==
    \A p \in Own :
        /\ p.ended /\ p.paint = White
        /\ \/ p.tag \in {"other", "bold", "close"} /\ p.colors = 0 /\ p.chars = 1 /\ p.bytes = 1
           \/ p.tag = "gradient" /\ p.colors \in {2, 3} /\ p.chars = 3 /\ p.bytes = 3
<1>1. \A tag : /\ Tagged(tag).tag = tag /\ Tagged(tag).ended /\ Tagged(tag).paint = White
               /\ Tagged(tag).colors = 0 /\ Tagged(tag).chars = 1 /\ Tagged(tag).bytes = 1
  BY DEF Tagged
<1>2. \A n : /\ Faded(n).tag = "gradient" /\ Faded(n).ended /\ Faded(n).paint = White
             /\ Faded(n).colors = n /\ Faded(n).chars = 3 /\ Faded(n).bytes = 3
  BY DEF Faded, Tagged
<1>3. QED
  BY <1>1, <1>2 DEF Own, Hue, Bold, End

\* Each has what a piece has.
LEMMA PieceFacts ==
    \A p \in AnyPieces :
        /\ p.paint \in Paints \cup {NoPaint}
        /\ p.colors \in Nat /\ p.chars \in Nat /\ p.bytes \in Nat
        /\ p.chars <= p.bytes
<1>1. \A p \in Own : /\ p.paint = White /\ p.colors \in Nat /\ p.chars \in Nat /\ p.bytes \in Nat
                     /\ p.chars <= p.bytes
  BY OwnPieces
<1>2. QED
  BY <1>1, PiecesAssumption DEF AnyPieces

\* Where a character stands in the gradient of a piece.
LEMMA LerpColorOf ==
    \A p \in AnyPieces : \A id \in 0..p.chars - 1 : p.colors >= 2 =>
        LET l == LerpColor(id, p.bytes, p.colors) IN
        /\ l.from \in Nat /\ l.to < p.colors /\ l.part \in 0..p.bytes - 1
        /\ l.from * p.bytes + l.part = id * (p.colors - 1)
<1> SUFFICES ASSUME NEW p \in AnyPieces, NEW id \in 0..p.chars - 1, p.colors >= 2
             PROVE  LET l == LerpColor(id, p.bytes, p.colors) IN
                    /\ l.from \in Nat /\ l.to < p.colors /\ l.part \in 0..p.bytes - 1
                    /\ l.from * p.bytes + l.part = id * (p.colors - 1)
  OBVIOUS
<1> DEFINE steps == p.colors - 1
           place == id * steps
<1>1. p.colors \in Nat /\ p.chars \in Nat /\ p.bytes \in Nat /\ p.chars <= p.bytes
  BY PieceFacts
<1>2. id \in Nat /\ id < p.bytes /\ p.bytes \in Nat \ {0} /\ steps \in Nat \ {0}
  BY <1>1
<1>3. place \in Nat /\ place < p.bytes * steps
  <2> HIDE DEF steps
  <2>1. id * steps \in Nat
    BY <1>2
  <2>2. id * steps < p.bytes * steps
    BY <1>2, ProductGrowsStrictly, Zenon
  <2>3. QED
    BY <2>1, <2>2
<1>4. place < steps * p.bytes
  BY <1>2, <1>3
<1> HIDE DEF place, steps
<1>5. place \div p.bytes < steps
  BY <1>2, <1>3, <1>4, QuotientBelow
<1>6. /\ place \div p.bytes \in Nat /\ place % p.bytes \in 0..p.bytes - 1
      /\ place = (place \div p.bytes) * p.bytes + (place % p.bytes)
  BY <1>2, <1>3, QuotientAndRest
<1>7. (place \div p.bytes) + 1 < p.colors
  BY <1>1, <1>2, <1>5, <1>6 DEF steps
<1>8. LerpColor(id, p.bytes, p.colors) =
         [from |-> place \div p.bytes, to |-> (place \div p.bytes) + 1, part |-> place % p.bytes]
  BY DEF LerpColor, place, steps
<1>9. QED
  BY <1>6, <1>7, <1>8 DEF place, steps

\* A gradient is out of range when it has fewer than two colours over some text.
LEMMA GradientPanicsWhen == \A p \in AnyPieces : GradientPanics(p) <=> p.colors < 2 /\ p.chars > 0
<1> SUFFICES ASSUME NEW p \in AnyPieces PROVE GradientPanics(p) <=> p.colors < 2 /\ p.chars > 0
  OBVIOUS
<1>1. p.colors \in Nat /\ p.chars \in Nat /\ p.bytes \in Nat /\ p.chars <= p.bytes
  BY PieceFacts
<1>2. CASE p.colors >= 2
  <2>1. \A id \in 0..p.chars - 1 : LerpColor(id, p.bytes, p.colors).to < p.colors
    BY <1>2, LerpColorOf
  <2>2. \A id \in 0..p.chars - 1 : LerpColor(id, p.bytes, p.colors).to \in Int
    <3>1. \A id \in 0..p.chars - 1 : LerpColor(id, p.bytes, p.colors).from \in Nat
      BY <1>2, LerpColorOf
    <3>2. QED
      BY <3>1 DEF LerpColor
  <2>3. \A id \in 0..p.chars - 1 : ~(LerpColor(id, p.bytes, p.colors).to >= p.colors)
    BY <1>1, <2>1, <2>2
  <2>4. QED
    BY <1>1, <1>2, <2>3 DEF GradientPanics
<1>3. CASE p.colors = 1 /\ p.chars > 0
  <2>1. 0 \in 0..p.chars - 1 /\ p.bytes \in Nat \ {0}
    BY <1>1, <1>3
  <2>2. (0 * (1 - 1)) \div p.bytes = 0
    BY <2>1
  <2>3. LerpColor(0, p.bytes, p.colors).to = 0 + 1
    BY <1>3, <2>2 DEF LerpColor
  <2>4. QED
    BY <1>3, <2>1, <2>3 DEF GradientPanics
<1>4. CASE p.colors = 0 /\ p.chars > 0
  BY <1>4 DEF GradientPanics
<1>5. CASE p.chars = 0
  BY <1>5 DEF GradientPanics
<1>6. QED
  BY <1>1, <1>2, <1>3, <1>4, <1>5

-----------------------------------------------------------------------------
(* How deep the tags are at a piece: the tags opened less those closed.    *)

Opened(t) == {k \in DOMAIN t : t[k].tag # "close"}
Shut(t) == {k \in DOMAIN t : t[k].tag = "close"}
Counted(T, i, j) == Cardinality(T \cap (i..j))
Depth(t, j) == Counted(Opened(t), 1, j) - Counted(Shut(t), 1, j)

\* What is counted is finite, and a number.
LEMMA CountedFinite == ASSUME NEW T, NEW i \in Int, NEW j \in Int PROVE IsFiniteSet(T \cap (i..j))
<1>1. IsFiniteSet(i..j)
  BY FS_Interval
<1>2. QED
  BY <1>1, FS_Intersection

\* The same, of the number itself.
LEMMA CountedType == ASSUME NEW T, NEW i \in Int, NEW j \in Int PROVE Counted(T, i, j) \in Nat
<1>1. IsFiniteSet(T \cap (i..j))
  BY CountedFinite
<1>2. QED
  BY <1>1, FS_CardinalityType DEF Counted

\* What is counted in an interval is what is counted in its two parts.
LEMMA CountedSplit ==
    \A T : \A i, j \in Nat : i <= j => Counted(T, 1, j) = Counted(T, 1, i) + Counted(T, i + 1, j)
<1> TAKE T
<1> TAKE i, j \in Nat
<1> HAVE i <= j
<1> DEFINE A == T \cap (1..i)
           B == T \cap (i + 1..j)
<1>1. IsFiniteSet(A) /\ IsFiniteSet(B) /\ Cardinality(A) \in Nat /\ Cardinality(B) \in Nat
  <2>1. 1 \in Int /\ i \in Int /\ i + 1 \in Int /\ j \in Int
    OBVIOUS
  <2>2. IsFiniteSet(A) /\ IsFiniteSet(B)
    BY <2>1, CountedFinite
  <2> HIDE DEF A, B
  <2>3. QED
    BY <2>2, FS_CardinalityType
<1>2. A \cap B = {}
  OBVIOUS
<1>3. A \cup B = T \cap (1..j)
  OBVIOUS
<1> HIDE DEF A, B
<1>4. Cardinality(A \cup B) = Cardinality(A) + Cardinality(B) - 0
  <2>1. Cardinality(A \cup B) = Cardinality(A) + Cardinality(B) - Cardinality(A \cap B)
    BY <1>1, FS_Union
  <2>2. Cardinality(A \cap B) = 0
    BY <1>2, FS_EmptySet
  <2>3. QED
    BY <2>1, <2>2
<1>5. QED
  <2>1. Cardinality(A \cup B) = Cardinality(A) + Cardinality(B)
    BY <1>1, <1>4
  <2>2. QED
    BY <1>3, <2>1 DEF Counted, A, B

\* One more counts one more, if it is to be counted.
LEMMA CountedNext ==
    \A T : \A j \in Nat : Counted(T, 1, j + 1) = Counted(T, 1, j) + IF j + 1 \in T THEN 1 ELSE 0
<1> TAKE T
<1> TAKE j \in Nat
<1> DEFINE A == T \cap (1..j)
<1>1. IsFiniteSet(A) /\ Cardinality(A) \in Nat
  <2>1. 1 \in Int /\ j \in Int
    OBVIOUS
  <2>2. IsFiniteSet(A)
    BY <2>1, CountedFinite
  <2> HIDE DEF A
  <2>3. QED
    BY <2>2, FS_CardinalityType
<1>2. j + 1 \notin A
  OBVIOUS
<1>3. CASE j + 1 \in T
  <2>1. T \cap (1..j + 1) = A \cup {j + 1}
    BY <1>3
  <2> HIDE DEF A
  <2>2. Cardinality(A \cup {j + 1}) = Cardinality(A) + 1
    BY <1>1, <1>2, FS_AddElement
  <2>3. QED
    BY <1>3, <2>1, <2>2 DEF Counted, A
<1>4. CASE j + 1 \notin T
  <2>1. T \cap (1..j + 1) = A
    BY <1>4
  <2> HIDE DEF A
  <2>2. QED
    BY <1>1, <1>4, <2>1 DEF Counted, A
<1>5. QED
  BY <1>3, <1>4

\* A string that grows keeps the depths it had, and one is one more or less.
LEMMA DepthGrows ==
    ASSUME NEW t \in Seq(Pieces), NEW p \in Pieces
    PROVE  /\ \A j \in 0..Len(t) : Depth(t, j) \in Int /\ Depth(Append(t, p), j) = Depth(t, j)
           /\ Depth(Append(t, p), Len(t) + 1) = Depth(t, Len(t)) + (IF p.tag = "close" THEN 0 - 1 ELSE 1)
<1> DEFINE n == Len(t)
           u == Append(t, p)
<1>1. n \in Nat /\ DOMAIN t = 1..n /\ DOMAIN u = 1..n + 1 /\ u[n + 1] = p /\ \A k \in 1..n : u[k] = t[k]
  OBVIOUS
<1> HIDE DEF n, u
<1>2. \A j \in 0..n : Opened(u) \cap (1..j) = Opened(t) \cap (1..j)
  BY <1>1 DEF Opened
<1>3. \A j \in 0..n : Shut(u) \cap (1..j) = Shut(t) \cap (1..j)
  BY <1>1 DEF Shut
<1>4. \A j \in 0..n : Depth(u, j) = Depth(t, j)
  BY <1>2, <1>3, Zenon DEF Depth, Counted
<1>5. \A j \in 0..n : Counted(Opened(t), 1, j) \in Nat /\ Counted(Shut(t), 1, j) \in Nat
  <2> SUFFICES ASSUME NEW j \in 0..n
               PROVE  Counted(Opened(t), 1, j) \in Nat /\ Counted(Shut(t), 1, j) \in Nat
    OBVIOUS
  <2>1. 1 \in Int /\ j \in Int
    BY <1>1
  <2>2. QED
    BY <2>1, CountedType
<1>6. \A j \in 0..n : Depth(t, j) \in Int
  BY <1>5 DEF Depth
<1>7. /\ Counted(Opened(u), 1, n + 1) = Counted(Opened(u), 1, n) + IF n + 1 \in Opened(u) THEN 1 ELSE 0
      /\ Counted(Shut(u), 1, n + 1) = Counted(Shut(u), 1, n) + IF n + 1 \in Shut(u) THEN 1 ELSE 0
  BY <1>1, CountedNext
<1>8. Counted(Opened(u), 1, n) = Counted(Opened(t), 1, n) /\ Counted(Shut(u), 1, n) = Counted(Shut(t), 1, n)
  <2>1. n \in 0..n
    BY <1>1
  <2>2. QED
    BY <1>2, <1>3, <2>1, Zenon DEF Counted
<1>9. (n + 1 \in Opened(u) <=> p.tag # "close") /\ (n + 1 \in Shut(u) <=> p.tag = "close")
  BY <1>1 DEF Opened, Shut
<1>10. n \in 0..n
  BY <1>1
<1>11. Depth(u, n + 1) = Depth(t, n) + (IF p.tag = "close" THEN 0 - 1 ELSE 1)
  BY <1>5, <1>7, <1>8, <1>9, <1>10 DEF Depth
<1>12. QED
  BY <1>4, <1>6, <1>11 DEF n, u

\* Whether more tags are closed than opened, in depths.
LEMMA BalanceOf ==
    ASSUME text \in Seq(Pieces), NEW i \in 0..Len(text), NEW j \in i..Len(text)
    PROVE  Balance(i + 1, j) <=> Depth(text, i) <= Depth(text, j)
<1>1. Len(text) \in Nat /\ i \in Nat /\ j \in Nat /\ i <= j /\ DOMAIN text = 1..Len(text)
  OBVIOUS
<1>2. {k \in i + 1..j : Opens(k)} = Opened(text) \cap (i + 1..j)
  BY <1>1 DEF Opens, Opened
<1>3. {k \in i + 1..j : ~Opens(k)} = Shut(text) \cap (i + 1..j)
  BY <1>1 DEF Opens, Shut
<1>4. Balance(i + 1, j) <=> Counted(Opened(text), i + 1, j) + 1 > Counted(Shut(text), i + 1, j)
  BY <1>2, <1>3, Zenon DEF Balance, Counted
<1>5. /\ Counted(Opened(text), 1, j) = Counted(Opened(text), 1, i) + Counted(Opened(text), i + 1, j)
      /\ Counted(Shut(text), 1, j) = Counted(Shut(text), 1, i) + Counted(Shut(text), i + 1, j)
  BY <1>1, CountedSplit
<1>6. \A T : Counted(T, 1, i) \in Nat /\ Counted(T, 1, j) \in Nat /\ Counted(T, i + 1, j) \in Nat
  <2>1. 1 \in Int /\ i \in Int /\ i + 1 \in Int /\ j \in Int
    BY <1>1
  <2>2. QED
    BY <2>1, CountedType
<1>7. QED
  BY <1>4, <1>5, <1>6 DEF Depth

-----------------------------------------------------------------------------
(* What Parse has made of a string: each piece's component in the style of *)
(* the tags open there, and of the styles stacked, each that of the tags   *)
(* open below its height.                                                  *)

Styles == [color : Paints, bold : BOOLEAN]
Shown == {Component(p, s) : p \in AnyPieces, s \in Styles}

OpenOf(t, j) == {i \in 1..j : t[i].tag # "close" /\ \A k \in i + 1..j : Depth(t, i) <= Depth(t, k)}
OpenBelow(t, j, h) == {i \in OpenOf(t, j) : Depth(t, i) < h}

Colored(t, tags) == {i \in tags : t[i].tag = "color" /\ t[i].paint # NoPaint}
HasColor(c, t, tags) ==
    \/ Colored(t, tags) = {} /\ c = White
    \/ \E i \in Colored(t, tags) : (\A k \in Colored(t, tags) : k <= i) /\ c = t[i].paint
HasStyle(s, t, tags) ==
    s \in Styles /\ HasColor(s.color, t, tags) /\ (s.bold <=> \E i \in tags : t[i].tag = "bold")

UnreadableOf(t, j) ==
    \/ ~t[j].ended
    \/ Depth(t, j) < 0
    \/ t[j].tag = "color" /\ t[j].colors = 0
    \/ t[j].tag = "gradient" /\ t[j].paint # NoPaint /\ t[j].colors < 2 /\ t[j].chars > 0

MiniInv ==
    /\ text \in Seq(Pieces)
    /\ parsed \in [styles : Seq(Styles), shown : Seq(Shown), panicked : BOOLEAN]
    /\ \A j \in 1..Len(parsed.shown) :
          /\ ~UnreadableOf(text, j)
          /\ \E s \in Styles : HasStyle(s, text, OpenOf(text, j)) /\ parsed.shown[j] = Component(text[j], s)
    /\ parsed.panicked =>
          Len(text) = Len(parsed.shown) + 1 /\ UnreadableOf(text, Len(text))
    /\ ~parsed.panicked =>
          /\ Len(text) = Len(parsed.shown)
          /\ Len(parsed.styles) = Depth(text, Len(text)) + 1 /\ Len(parsed.styles) > 0
          /\ \A h \in 1..Len(parsed.styles) :
                HasStyle(parsed.styles[h], text, OpenBelow(text, Len(text), h))

\* The style of a piece is that of the tags so far, and of its own.
LEMMA StyledBy ==
    ASSUME NEW t \in Seq(Pieces), NEW p \in Pieces, NEW tags \in SUBSET (1..Len(t)), NEW s, HasStyle(s, t, tags)
    PROVE  HasStyle(Styled(p, s), Append(t, p), tags \cup {Len(t) + 1})
<1> DEFINE n == Len(t)
           u == Append(t, p)
           more == tags \cup {n + 1}
           st == Styled(p, s)
<1>1. n \in Nat /\ u[n + 1] = p /\ \A k \in 1..n : u[k] = t[k]
  OBVIOUS
<1>2. p.paint \in Paints \cup {NoPaint} /\ tags \subseteq 1..n /\ n + 1 \notin tags
  BY <1>1, PiecesAssumption
<1>3. s \in Styles /\ HasColor(s.color, t, tags) /\ (s.bold <=> \E i \in tags : t[i].tag = "bold")
  BY DEF HasStyle
<1>4. s = [color |-> s.color, bold |-> s.bold] /\ s.color \in Paints /\ s.bold \in BOOLEAN
  BY <1>3 DEF Styles
<1> HIDE DEF n, u
<1>5. Colored(u, tags) = Colored(t, tags)
  BY <1>1, <1>2 DEF Colored
<1>6. CASE p.tag = "color" /\ p.paint # NoPaint
  <2>1. st = [s EXCEPT !.color = p.paint]
    BY <1>6 DEF Styled, Known
  <2>2. st \in Styles /\ st.color = p.paint /\ st.bold = s.bold
    BY <1>2, <1>3, <1>6, <2>1 DEF Styles
  <2>3. n + 1 \in Colored(u, more) /\ \A k \in Colored(u, more) : k <= n + 1
    BY <1>1, <1>2, <1>6 DEF Colored
  <2>4. HasColor(st.color, u, more)
    BY <1>1, <2>2, <2>3 DEF HasColor
  <2>5. (\E i \in more : u[i].tag = "bold") <=> (\E i \in tags : t[i].tag = "bold")
    BY <1>1, <1>2, <1>6
  <2>6. QED
    BY <1>3, <2>2, <2>4, <2>5 DEF HasStyle, n, u
<1>7. CASE ~(p.tag = "color" /\ p.paint # NoPaint)
  <2>1. st = IF p.tag = "bold" THEN [s EXCEPT !.bold = TRUE] ELSE s
    BY <1>7 DEF Styled, Known
  <2>2. st \in Styles /\ st.color = s.color
    BY <1>3, <2>1 DEF Styles
  <2>3. st.bold <=> p.tag = "bold" \/ s.bold
    BY <1>3, <2>1 DEF Styles
  <2>4. Colored(u, more) = Colored(t, tags)
    BY <1>1, <1>2, <1>5, <1>7 DEF Colored
  <2>5. HasColor(st.color, u, more)
    <3>1. \A i \in Colored(t, tags) : u[i] = t[i]
      BY <1>1, <1>2 DEF Colored
    <3>2. QED
      BY <1>3, <2>2, <2>4, <3>1 DEF HasColor
  <2>6. (\E i \in more : u[i].tag = "bold") <=> (\E i \in tags : t[i].tag = "bold") \/ p.tag = "bold"
    BY <1>1, <1>2
  <2>7. QED
    BY <1>3, <2>2, <2>3, <2>5, <2>6 DEF HasStyle, n, u
<1>8. QED
  BY <1>6, <1>7

\* A style stays that of its tags when the string grows.
LEMMA StyleKept ==
    ASSUME NEW t \in Seq(Pieces), NEW p \in Pieces, NEW tags \in SUBSET (1..Len(t)), NEW s, HasStyle(s, t, tags)
    PROVE  HasStyle(s, Append(t, p), tags)
<1> DEFINE u == Append(t, p)
<1>1. \A k \in tags : u[k] = t[k]
  OBVIOUS
<1> HIDE DEF u
<1>2. Colored(u, tags) = Colored(t, tags) /\ \A k \in Colored(t, tags) : u[k] = t[k]
  BY <1>1 DEF Colored
<1>3. (\E i \in tags : u[i].tag = "bold") <=> (\E i \in tags : t[i].tag = "bold")
  BY <1>1
<1>4. HasColor(s.color, t, tags) => HasColor(s.color, u, tags)
  BY <1>2 DEF HasColor
<1>5. QED
  BY <1>3, <1>4 DEF HasStyle, u

\* The tags that are open when a string has grown by a piece, and of those the
\* ones below a height.
LEMMA OpenGrows ==
    ASSUME NEW t \in Seq(Pieces), NEW p \in Pieces
    PROVE  LET n == Len(t)
               u == Append(t, p)
               d == Depth(t, n)
           IN /\ d \in Int
              /\ \A j \in 1..n : OpenOf(u, j) = OpenOf(t, j) /\ OpenOf(t, j) \subseteq 1..n
              /\ OpenOf(t, n) \subseteq 1..n /\ OpenBelow(t, n, d + 1) = OpenOf(t, n)
              /\ p.tag # "close" =>
                    /\ Depth(u, n + 1) = d + 1
                    /\ OpenOf(u, n + 1) = OpenOf(t, n) \cup {n + 1}
                    /\ \A h \in 1..d + 1 : OpenBelow(u, n + 1, h) = OpenBelow(t, n, h)
                    /\ OpenBelow(u, n + 1, d + 2) = OpenOf(u, n + 1)
              /\ p.tag = "close" =>
                    /\ Depth(u, n + 1) = d - 1
                    /\ OpenOf(u, n + 1) = OpenBelow(t, n, d)
                    /\ \A h \in 1..d : OpenBelow(u, n + 1, h) = OpenBelow(t, n, h)
<1> DEFINE n == Len(t)
           u == Append(t, p)
           d == Depth(t, n)
<1>1. n \in Nat /\ u[n + 1] = p /\ \A k \in 1..n : u[k] = t[k]
  OBVIOUS
<1>2. \A j \in 0..n : Depth(t, j) \in Int /\ Depth(u, j) = Depth(t, j)
  BY DepthGrows
<1>3. Depth(u, n + 1) = d + (IF p.tag = "close" THEN 0 - 1 ELSE 1)
  BY DepthGrows
<1>4. d \in Int
  BY <1>1, <1>2
<1> HIDE DEF n, u, d
<1>5. \A j \in 1..n : OpenOf(u, j) = OpenOf(t, j)
  <2> SUFFICES ASSUME NEW j \in 1..n PROVE OpenOf(u, j) = OpenOf(t, j)
    OBVIOUS
  <2>1. \A i \in 1..j : i \in 1..n /\ i \in 0..n /\ \A k \in i + 1..j : k \in 0..n
    BY <1>1
  <2>2. \A i \in 1..j : /\ u[i].tag # "close" <=> t[i].tag # "close"
                        /\ (\A k \in i + 1..j : Depth(u, i) <= Depth(u, k)) <=>
                              (\A k \in i + 1..j : Depth(t, i) <= Depth(t, k))
    BY <1>1, <1>2, <2>1
  <2>3. QED
    BY <2>2 DEF OpenOf
<1>6. \A j \in 1..n : OpenOf(t, j) \subseteq 1..n
  BY <1>1 DEF OpenOf
<1>7. OpenOf(t, n) \subseteq 1..n /\ \A i \in OpenOf(t, n) : Depth(t, i) \in Int /\ Depth(t, i) <= d
  <2>1. OpenOf(t, n) \subseteq 1..n
    BY DEF OpenOf
  <2> SUFFICES ASSUME NEW i \in OpenOf(t, n) PROVE Depth(t, i) \in Int /\ Depth(t, i) <= d
    BY <2>1
  <2>2. i \in 1..n /\ i \in 0..n
    BY <1>1, <2>1
  <2>3. i = n \/ n \in i + 1..n
    BY <1>1, <2>2
  <2>4. QED
    BY <1>2, <2>2, <2>3 DEF OpenOf, d
<1>8. OpenBelow(t, n, d + 1) = OpenOf(t, n)
  BY <1>4, <1>7 DEF OpenBelow
<1>9. \A i \in 1..n : i \in OpenOf(u, n + 1) <=> i \in OpenOf(t, n) /\ Depth(t, i) <= Depth(u, n + 1)
  <2> SUFFICES ASSUME NEW i \in 1..n
               PROVE  i \in OpenOf(u, n + 1) <=> i \in OpenOf(t, n) /\ Depth(t, i) <= Depth(u, n + 1)
    OBVIOUS
  <2>1. i \in 0..n /\ i \in 1..n + 1 /\ (i + 1..n + 1) = (i + 1..n) \cup {n + 1}
    BY <1>1
  <2>2. \A k \in i + 1..n : Depth(u, k) = Depth(t, k)
    BY <1>1, <1>2
  <2>3. Depth(u, i) = Depth(t, i) /\ u[i] = t[i]
    BY <1>1, <1>2, <2>1
  <2>4. (\A k \in i + 1..n + 1 : Depth(u, i) <= Depth(u, k)) <=>
           (\A k \in i + 1..n : Depth(t, i) <= Depth(t, k)) /\ Depth(t, i) <= Depth(u, n + 1)
    BY <2>1, <2>2, <2>3
  <2>5. QED
    BY <2>1, <2>3, <2>4 DEF OpenOf
<1>10. OpenOf(u, n + 1) \subseteq (1..n) \cup {n + 1}
  BY <1>1 DEF OpenOf
<1>11. n + 1 \in OpenOf(u, n + 1) <=> p.tag # "close"
  <2>1. (n + 1) + 1..n + 1 = {} /\ n + 1 \in 1..n + 1
    BY <1>1
  <2>2. QED
    BY <1>1, <2>1 DEF OpenOf
<1>12. \A i \in OpenOf(t, n) : Depth(u, i) = Depth(t, i)
  BY <1>1, <1>2, <1>7
<1>13. ASSUME p.tag # "close"
       PROVE  /\ Depth(u, n + 1) = d + 1
              /\ OpenOf(u, n + 1) = OpenOf(t, n) \cup {n + 1}
              /\ \A h \in 1..d + 1 : OpenBelow(u, n + 1, h) = OpenBelow(t, n, h)
              /\ OpenBelow(u, n + 1, d + 2) = OpenOf(u, n + 1)
  <2>1. Depth(u, n + 1) = d + 1
    BY <1>3, <1>13
  <2>2. OpenOf(u, n + 1) = OpenOf(t, n) \cup {n + 1}
    <3>1. \A i \in OpenOf(t, n) : i \in 1..n /\ Depth(t, i) <= Depth(u, n + 1)
      BY <1>4, <1>7, <2>1
    <3>2. QED
      BY <1>9, <1>10, <1>11, <1>13, <3>1, Zenon
  <2>3. \A h \in 1..d + 1 : OpenBelow(u, n + 1, h) = OpenBelow(t, n, h)
    <3> SUFFICES ASSUME NEW h \in 1..d + 1 PROVE OpenBelow(u, n + 1, h) = OpenBelow(t, n, h)
      OBVIOUS
    <3>1. ~(Depth(u, n + 1) < h)
      BY <1>4, <2>1
    <3>2. QED
      BY <1>12, <2>2, <3>1 DEF OpenBelow
  <2>4. OpenBelow(u, n + 1, d + 2) = OpenOf(u, n + 1)
    <3>1. \A i \in OpenOf(u, n + 1) : Depth(u, i) < d + 2
      BY <1>4, <1>7, <1>12, <2>1, <2>2
    <3>2. QED
      BY <3>1 DEF OpenBelow
  <2>5. QED
    BY <2>1, <2>2, <2>3, <2>4
<1>14. ASSUME p.tag = "close"
       PROVE  /\ Depth(u, n + 1) = d - 1
              /\ OpenOf(u, n + 1) = OpenBelow(t, n, d)
              /\ \A h \in 1..d : OpenBelow(u, n + 1, h) = OpenBelow(t, n, h)
  <2>1. Depth(u, n + 1) = d - 1
    BY <1>3, <1>4, <1>14
  <2>2. OpenOf(u, n + 1) = OpenBelow(t, n, d)
    <3>1. \A i \in OpenOf(t, n) : Depth(t, i) <= Depth(u, n + 1) <=> Depth(t, i) < d
      BY <1>4, <1>7, <2>1
    <3>2. OpenOf(u, n + 1) = {i \in OpenOf(t, n) : Depth(t, i) <= Depth(u, n + 1)}
      BY <1>7, <1>9, <1>10, <1>11, <1>14
    <3>3. QED
      BY <3>1, <3>2 DEF OpenBelow
  <2>3. \A h \in 1..d : OpenBelow(u, n + 1, h) = OpenBelow(t, n, h)
    <3> SUFFICES ASSUME NEW h \in 1..d PROVE OpenBelow(u, n + 1, h) = OpenBelow(t, n, h)
      OBVIOUS
    <3>1. \A i \in OpenOf(t, n) : Depth(t, i) < h => Depth(t, i) < d
      BY <1>4, <1>7
    <3>2. OpenBelow(u, n + 1, h) = {i \in OpenBelow(t, n, d) : Depth(u, i) < h}
      BY <2>2 DEF OpenBelow
    <3>3. QED
      BY <1>12, <3>1, <3>2 DEF OpenBelow
  <2>4. QED
    BY <2>1, <2>2, <2>3
<1>15. QED
  BY <1>4, <1>5, <1>6, <1>7, <1>8, <1>13, <1>14 DEF n, u, d

\* The first elements of a sequence.
LEMMA FirstOf ==
    ASSUME NEW T, NEW s \in Seq(T), NEW k \in 0..Len(s)
    PROVE  SubSeq(s, 1, k) \in Seq(T) /\ Len(SubSeq(s, 1, k)) = k /\ \A h \in 1..k : SubSeq(s, 1, k)[h] = s[h]
  OBVIOUS

\* What one turn of the loop makes, of a stack and of the piece.
LEMMA PieceParsed ==
    ASSUME NEW out \in [styles : Seq(Styles), shown : Seq(Shown), panicked : BOOLEAN],
           ~out.panicked, Len(out.styles) > 0, NEW p \in AnyPieces
    PROVE  LET m == Len(out.styles)
               kept == IF p.tag = "close" THEN m - 1 ELSE m
               style == IF p.tag = "close" THEN out.styles[m - 1] ELSE Styled(p, out.styles[m])
               stop == \/ kept = 0
                       \/ ~p.ended
                       \/ p.tag = "color" /\ p.colors = 0
                       \/ p.tag = "gradient" /\ p.paint # NoPaint /\ p.colors < 2 /\ p.chars > 0
               next == ParsePiece(out, p)
           IN /\ next \in [styles : Seq(Styles), shown : Seq(Shown), panicked : BOOLEAN]
              /\ stop => next.panicked /\ next.shown = out.shown
              /\ ~stop =>
                    /\ ~next.panicked
                    /\ style \in Styles /\ next.shown = Append(out.shown, Component(p, style))
                    /\ p.tag = "close" =>
                          Len(next.styles) = m - 1 /\ \A h \in 1..m - 1 : next.styles[h] = out.styles[h]
                    /\ p.tag # "close" =>
                          /\ Len(next.styles) = m + 1 /\ next.styles[m + 1] = style
                          /\ \A h \in 1..m : next.styles[h] = out.styles[h]
<1> DEFINE m == Len(out.styles)
           kept == IF p.tag = "close" THEN m - 1 ELSE m
           style == IF p.tag = "close" THEN out.styles[m - 1] ELSE Styled(p, out.styles[m])
           stop == \/ kept = 0
                   \/ ~p.ended
                   \/ p.tag = "color" /\ p.colors = 0
                   \/ p.tag = "gradient" /\ p.paint # NoPaint /\ p.colors < 2 /\ p.chars > 0
           next == ParsePiece(out, p)
           stack == Pushed(out.styles, p)
           made == Styled(p, Last(stack))
           below == Front(stack)
<1>1. m \in Nat /\ m > 0 /\ out.styles \in Seq(Styles) /\ out.shown \in Seq(Shown)
      /\ \A h \in 1..m : out.styles[h] \in Styles
  OBVIOUS
<1>2. next = IF Panics(p, stack) THEN [out EXCEPT !.panicked = TRUE]
             ELSE [out EXCEPT !.styles = Append(below, made), !.shown = Append(@, Component(p, made))]
  BY Zenon DEF ParsePiece
<1>3. Panics(p, stack) <=> \/ stack = <<>>
                           \/ ~p.ended
                           \/ p.tag = "color" /\ p.colors = 0
                           \/ p.tag = "gradient" /\ p.paint # NoPaint /\ p.colors < 2 /\ p.chars > 0
  BY GradientPanicsWhen DEF Panics, Known
<1>4. \A s \in Styles : Styled(p, s) \in Styles
  <2> SUFFICES ASSUME NEW s \in Styles PROVE Styled(p, s) \in Styles
    OBVIOUS
  <2>1. p.paint \in Paints \cup {NoPaint}
    BY PieceFacts
  <2>2. [s EXCEPT !.bold = TRUE] \in Styles
    BY DEF Styles
  <2>3. p.paint # NoPaint => [s EXCEPT !.color = p.paint] \in Styles
    BY <2>1 DEF Styles
  <2>4. QED
    BY <2>2, <2>3 DEF Styled, Known
<1>5. stack = <<>> <=> kept = 0
  <2>1. CASE p.tag = "close"
    <3>1. stack = SubSeq(out.styles, 1, m - 1)
      BY <2>1 DEF Pushed, Front
    <3>2. Len(stack) = m - 1 /\ stack \in Seq(Styles)
      <4>1. m - 1 \in 0..m
        BY <1>1
      <4> HIDE DEF stack
      <4>2. QED
        BY <1>1, <3>1, <4>1, FirstOf
    <3> HIDE DEF stack, m
    <3>3. stack = <<>> <=> m - 1 = 0
      BY <1>1, <3>2
    <3>4. QED
      BY <2>1, <3>3
  <2>2. CASE p.tag # "close"
    <3>1. stack = Append(out.styles, Last(out.styles))
      BY <2>2 DEF Pushed
    <3>2. Len(stack) = m + 1
      BY <1>1, <3>1
    <3> HIDE DEF stack
    <3>3. QED
      BY <1>1, <2>2, <3>2
  <2>3. QED
    BY <2>1, <2>2
<1>6. Panics(p, stack) <=> stop
  BY <1>3, <1>5, Zenon
<1>7. ~stop =>
         /\ made = style /\ style \in Styles
         /\ p.tag = "close" => below \in Seq(Styles) /\ Len(below) = m - 2 /\ \A h \in 1..m - 2 : below[h] = out.styles[h]
         /\ p.tag # "close" => below \in Seq(Styles) /\ Len(below) = m /\ \A h \in 1..m : below[h] = out.styles[h]
  <2> SUFFICES ASSUME kept # 0
               PROVE  /\ made = style /\ style \in Styles
                      /\ p.tag = "close" => below \in Seq(Styles) /\ Len(below) = m - 2 /\ \A h \in 1..m - 2 : below[h] = out.styles[h]
                      /\ p.tag # "close" => below \in Seq(Styles) /\ Len(below) = m /\ \A h \in 1..m : below[h] = out.styles[h]
    BY Zenon
  <2>1. CASE p.tag = "close"
    <3>1. stack = SubSeq(out.styles, 1, m - 1)
      BY <2>1 DEF Pushed, Front
    <3>2. Len(stack) = m - 1 /\ stack \in Seq(Styles) /\ \A h \in 1..m - 1 : stack[h] = out.styles[h]
      <4>1. m - 1 \in 0..m
        BY <1>1
      <4> HIDE DEF stack
      <4>2. QED
        BY <1>1, <3>1, <4>1, FirstOf
    <3>3. m - 1 \in 1..m - 1 /\ m - 2 \in 0..m - 1
      <4>1. m - 1 # 0
        BY <2>1
      <4> HIDE DEF m
      <4>2. QED
        BY <1>1, <4>1
    <3>4. below = SubSeq(stack, 1, m - 2)
      <4>1. (m - 1) - 1 = m - 2
        BY <1>1
      <4> HIDE DEF stack, m
      <4>2. QED
        BY <3>2, <4>1 DEF Front
    <3>5. made = out.styles[m - 1]
      <4>1. \A s : Styled(p, s) = s
        BY <2>1 DEF Styled
      <4> HIDE DEF stack
      <4>2. QED
        BY <3>2, <3>3, <4>1 DEF Last
    <3> HIDE DEF stack, made
    <3>6. below \in Seq(Styles) /\ Len(below) = m - 2 /\ \A h \in 1..m - 2 : below[h] = out.styles[h]
      <4>1. SubSeq(stack, 1, m - 2) \in Seq(Styles) /\ Len(SubSeq(stack, 1, m - 2)) = m - 2
            /\ \A h \in 1..m - 2 : SubSeq(stack, 1, m - 2)[h] = stack[h]
        <5>1. m - 2 \in 0..Len(stack)
          BY <3>2, <3>3
        <5> HIDE DEF m
        <5>2. QED
          BY <3>2, <5>1, FirstOf
      <4>2. \A h \in 1..m - 2 : h \in 1..m - 1
        BY <1>1
      <4> HIDE DEF below, m
      <4>3. QED
        BY <3>2, <3>4, <4>1, <4>2
    <3> HIDE DEF below
    <3>7. QED
      BY <1>1, <2>1, <3>3, <3>5, <3>6
  <2>2. CASE p.tag # "close"
    <3>1. stack = Append(out.styles, out.styles[m])
      BY <2>2 DEF Pushed, Last
    <3>2. Len(stack) = m + 1 /\ stack \in Seq(Styles) /\ \A h \in 1..m : stack[h] = out.styles[h]
      BY <1>1, <3>1
    <3>3. stack[m + 1] = out.styles[m]
      BY <1>1, <3>1
    <3>4. below = SubSeq(stack, 1, m)
      <4>1. (m + 1) - 1 = m
        BY <1>1
      <4> HIDE DEF stack, m
      <4>2. QED
        BY <3>2, <4>1 DEF Front
    <3>5. made = Styled(p, out.styles[m])
      <4> HIDE DEF stack, m
      <4>1. QED
        BY <3>2, <3>3 DEF Last
    <3> HIDE DEF stack, made
    <3>6. below \in Seq(Styles) /\ Len(below) = m /\ \A h \in 1..m : below[h] = out.styles[h]
      BY <1>1, <3>2, <3>4
    <3>7. style \in Styles /\ made = style
      BY <1>1, <1>4, <2>2, <3>5
    <3> HIDE DEF below
    <3>8. QED
      BY <2>2, <3>6, <3>7
  <2>3. QED
    BY <2>1, <2>2
<1> HIDE DEF stack, below
<1>8. stop => /\ next \in [styles : Seq(Styles), shown : Seq(Shown), panicked : BOOLEAN]
              /\ next.panicked /\ next.shown = out.shown
  <2> HAVE stop
  <2>1. next = [out EXCEPT !.panicked = TRUE]
    BY <1>2, <1>6
  <2> HIDE DEF next
  <2>2. QED
    BY <2>1
<1>9. ASSUME ~stop
      PROVE  /\ next \in [styles : Seq(Styles), shown : Seq(Shown), panicked : BOOLEAN]
             /\ ~next.panicked
             /\ style \in Styles /\ next.shown = Append(out.shown, Component(p, style))
             /\ p.tag = "close" =>
                   Len(next.styles) = m - 1 /\ \A h \in 1..m - 1 : next.styles[h] = out.styles[h]
             /\ p.tag # "close" =>
                   /\ Len(next.styles) = m + 1 /\ next.styles[m + 1] = style
                   /\ \A h \in 1..m : next.styles[h] = out.styles[h]
  <2>1. kept # 0
    BY <1>9
  <2> DEFINE pushed == Append(below, style)
             longer == Append(out.shown, Component(p, style))
  <2>2. next = [out EXCEPT !.styles = pushed, !.shown = longer]
    <3>1. ~Panics(p, stack)
      BY <1>6, <1>9
    <3>2. made = style
      BY <1>7, <1>9
    <3> HIDE DEF made, style, stop, next
    <3>3. QED
      BY <1>2, <3>1, <3>2
  <2>3. style \in Styles /\ below \in Seq(Styles)
    BY <1>7, <1>9
  <2>4. pushed \in Seq(Styles) /\ Len(pushed) = Len(below) + 1 /\ pushed[Len(below) + 1] = style
        /\ \A h \in 1..Len(below) : pushed[h] = below[h]
    <3> HIDE DEF style
    <3>1. QED
      BY <2>3
  <2>5. longer \in Seq(Shown)
    <3>1. Component(p, style) \in Shown
      BY <2>3 DEF Shown
    <3>2. QED
      BY <1>1, <3>1
  <2> HIDE DEF pushed, longer
  <2>6. /\ next \in [styles : Seq(Styles), shown : Seq(Shown), panicked : BOOLEAN]
        /\ ~next.panicked /\ next.styles = pushed /\ next.shown = longer
    <3> HIDE DEF next, style
    <3>1. QED
      BY <2>2, <2>4, <2>5
  <2>7. CASE p.tag = "close"
    <3>1. m - 1 > 0
      <4>1. m - 1 # 0
        BY <2>1, <2>7
      <4> HIDE DEF m
      <4>2. QED
        BY <1>1, <4>1
    <3>2. Len(below) = m - 2 /\ \A h \in 1..m - 2 : below[h] = out.styles[h]
      BY <1>7, <1>9, <2>7
    <3>3. style = out.styles[m - 1]
      BY <2>7
    <3> HIDE DEF next, style
    <3>4. Len(pushed) = m - 1 /\ pushed[m - 1] = out.styles[m - 1] /\ \A h \in 1..m - 2 : pushed[h] = out.styles[h]
      BY <1>1, <2>4, <3>2, <3>3
    <3>5. \A h \in 1..m - 1 : h = m - 1 \/ h \in 1..m - 2
      BY <1>1
    <3>6. \A h \in 1..m - 1 : pushed[h] = out.styles[h]
      BY <3>4, <3>5
    <3>7. QED
      BY <2>3, <2>6, <2>7, <3>4, <3>6 DEF longer
  <2>8. CASE p.tag # "close"
    <3>1. Len(below) = m /\ \A h \in 1..m : below[h] = out.styles[h]
      BY <1>7, <1>9, <2>8
    <3> HIDE DEF next, style
    <3>2. Len(pushed) = m + 1 /\ pushed[m + 1] = style /\ \A h \in 1..m : pushed[h] = out.styles[h]
      BY <1>1, <2>4, <3>1
    <3>3. QED
      BY <2>3, <2>6, <2>8, <3>2 DEF longer
  <2>9. QED
    BY <2>7, <2>8
<1> HIDE DEF next, style
<1>10. QED
  <2> HIDE DEF stop
  <2>1. QED
    BY <1>8, <1>9 DEF next, style, stop, kept, m

\* The invariant holds at first.
LEMMA InitMiniInv == ParseInit => MiniInv
<1> SUFFICES ASSUME ParseInit PROVE MiniInv
  OBVIOUS
<1>1. text = <<>> /\ parsed = [styles |-> <<Plain>>, shown |-> <<>>, panicked |-> FALSE]
  BY DEF ParseInit, Begun
<1>2. Plain \in Styles
  BY PiecesAssumption DEF Plain, Styles
<1>3. <<Plain>> \in Seq(Styles) /\ Len(<<Plain>>) = 1 /\ <<Plain>>[1] = Plain
  BY <1>2
<1>4. text \in Seq(Pieces) /\ Len(text) = 0
  BY <1>1
<1>5. Depth(text, 0) = 0
  <2>1. \A T : T \cap (1..0) = {}
    OBVIOUS
  <2>2. Counted(Opened(text), 1, 0) = 0 /\ Counted(Shut(text), 1, 0) = 0
    BY <2>1, FS_EmptySet DEF Counted
  <2>3. QED
    BY <2>2 DEF Depth
<1>6. HasStyle(Plain, text, OpenBelow(text, 0, 1))
  <2>1. OpenBelow(text, 0, 1) = {}
    BY DEF OpenBelow, OpenOf
  <2>2. Colored(text, {}) = {} /\ Plain.color = White /\ Plain.bold = FALSE
    BY DEF Colored, Plain
  <2>3. QED
    BY <1>2, <2>1, <2>2 DEF HasStyle, HasColor
<1>7. parsed \in [styles : Seq(Styles), shown : Seq(Shown), panicked : BOOLEAN]
  <2>1. <<>> \in Seq(Shown)
    OBVIOUS
  <2>2. QED
    BY <1>1, <1>3, <2>1
<1>8. ~parsed.panicked /\ parsed.shown = <<>> /\ parsed.styles = <<Plain>>
  BY <1>1
<1>9. Len(parsed.shown) = 0 /\ Len(parsed.styles) = 1
  BY <1>3, <1>8
<1>10. \A h \in 1..Len(parsed.styles) : HasStyle(parsed.styles[h], text, OpenBelow(text, Len(text), h))
  <2>1. \A h \in 1..1 : h = 1
    OBVIOUS
  <2>2. QED
    BY <1>3, <1>4, <1>6, <1>8, <1>9, <2>1
<1>11. \A j \in 1..Len(parsed.shown) : FALSE
  BY <1>9
<1>12. QED
  BY <1>4, <1>5, <1>7, <1>8, <1>9, <1>10, <1>11 DEF MiniInv

\* ... and after every piece.
LEMMA NextMiniInv == MiniInv /\ [ParseNext]_miniVars => MiniInv'
<1> SUFFICES ASSUME MiniInv, [ParseNext]_miniVars PROVE MiniInv'
  OBVIOUS
<1>1. CASE UNCHANGED miniVars
  BY <1>1 DEF miniVars, MiniInv
<1>2. ASSUME NEW p \in Pieces, Piece(p) PROVE MiniInv'
  <2> DEFINE n == Len(text)
             u == Append(text, p)
             d == Depth(text, n)
             m == Len(parsed.styles)
             kept == IF p.tag = "close" THEN m - 1 ELSE m
             style == IF p.tag = "close" THEN parsed.styles[m - 1] ELSE Styled(p, parsed.styles[m])
             stop == \/ kept = 0
                     \/ ~p.ended
                     \/ p.tag = "color" /\ p.colors = 0
                     \/ p.tag = "gradient" /\ p.paint # NoPaint /\ p.colors < 2 /\ p.chars > 0
             Fits(shown, t, j) == /\ ~UnreadableOf(t, j)
                                  /\ \E s \in Styles : HasStyle(s, t, OpenOf(t, j)) /\ shown[j] = Component(t[j], s)
  <2>1. text' = u /\ parsed' = ParsePiece(parsed, p) /\ ~parsed.panicked
    BY <1>2 DEF Piece
  <2>2. /\ text \in Seq(Pieces)
        /\ parsed \in [styles : Seq(Styles), shown : Seq(Shown), panicked : BOOLEAN]
        /\ \A j \in 1..Len(parsed.shown) : Fits(parsed.shown, text, j)
        /\ n = Len(parsed.shown) /\ m = d + 1 /\ m > 0
        /\ \A h \in 1..m : HasStyle(parsed.styles[h], text, OpenBelow(text, n, h))
    BY <2>1 DEF MiniInv
  <2>3. /\ parsed' \in [styles : Seq(Styles), shown : Seq(Shown), panicked : BOOLEAN]
        /\ stop => parsed'.panicked /\ parsed'.shown = parsed.shown
        /\ ~stop =>
              /\ ~parsed'.panicked
              /\ style \in Styles /\ parsed'.shown = Append(parsed.shown, Component(p, style))
              /\ p.tag = "close" =>
                    Len(parsed'.styles) = m - 1 /\ \A h \in 1..m - 1 : parsed'.styles[h] = parsed.styles[h]
              /\ p.tag # "close" =>
                    /\ Len(parsed'.styles) = m + 1 /\ parsed'.styles[m + 1] = style
                    /\ \A h \in 1..m : parsed'.styles[h] = parsed.styles[h]
    <3>1. p \in AnyPieces
      BY DEF AnyPieces
    <3> HIDE DEF style, stop, kept
    <3>2. QED
      BY <2>1, <2>2, <3>1, PieceParsed DEF style, stop, kept
  <2>4. /\ d \in Int
        /\ \A j \in 1..n : OpenOf(u, j) = OpenOf(text, j) /\ OpenOf(text, j) \subseteq 1..n
        /\ OpenOf(text, n) \subseteq 1..n /\ OpenBelow(text, n, d + 1) = OpenOf(text, n)
        /\ p.tag # "close" =>
              /\ Depth(u, n + 1) = d + 1
              /\ OpenOf(u, n + 1) = OpenOf(text, n) \cup {n + 1}
              /\ \A h \in 1..d + 1 : OpenBelow(u, n + 1, h) = OpenBelow(text, n, h)
              /\ OpenBelow(u, n + 1, d + 2) = OpenOf(u, n + 1)
        /\ p.tag = "close" =>
              /\ Depth(u, n + 1) = d - 1
              /\ OpenOf(u, n + 1) = OpenBelow(text, n, d)
              /\ \A h \in 1..d : OpenBelow(u, n + 1, h) = OpenBelow(text, n, h)
    BY <2>2, OpenGrows
  <2>5. /\ u \in Seq(Pieces) /\ Len(u) = n + 1 /\ u[n + 1] = p /\ n \in Nat
        /\ \A k \in 1..n : u[k] = text[k]
    BY <2>2
  <2>6. \A h : OpenBelow(text, n, h) \subseteq 1..n
    BY <2>4 DEF OpenBelow
  <2>7. \A j \in 1..n : Depth(u, j) = Depth(text, j)
    BY <2>2, DepthGrows
  <2>8. m \in Nat
    BY <2>2, <2>4
  <2>9. \A j \in 1..n : Fits(parsed.shown, u, j)
    <3> SUFFICES ASSUME NEW j \in 1..n PROVE Fits(parsed.shown, u, j)
      OBVIOUS
    <3>1. Fits(parsed.shown, text, j)
      BY <2>2
    <3>2. ~UnreadableOf(u, j)
      <4>1. u[j] = text[j] /\ Depth(u, j) = Depth(text, j)
        BY <2>5, <2>7
      <4>2. QED
        BY <3>1, <4>1 DEF UnreadableOf
    <3>3. PICK s \in Styles : HasStyle(s, text, OpenOf(text, j)) /\ parsed.shown[j] = Component(text[j], s)
      BY <3>1
    <3>4. HasStyle(s, u, OpenOf(u, j))
      <4>1. OpenOf(text, j) \in SUBSET (1..Len(text)) /\ OpenOf(u, j) = OpenOf(text, j)
        BY <2>4
      <4>2. QED
        BY <2>2, <3>3, <4>1, StyleKept
    <3>5. QED
      BY <2>5, <3>2, <3>3, <3>4
  <2>10. UnreadableOf(u, n + 1) <=> stop
    <3>1. Depth(u, n + 1) < 0 <=> kept = 0
      <4>1. CASE p.tag = "close"
        <5>1. Depth(u, n + 1) = m - 2 /\ kept = m - 1
          BY <2>2, <2>4, <4>1
        <5> HIDE DEF m, kept
        <5>2. QED
          BY <2>2, <2>8, <5>1
      <4>2. CASE p.tag # "close"
        <5>1. Depth(u, n + 1) = m /\ kept = m
          BY <2>2, <2>4, <4>2
        <5> HIDE DEF m, kept
        <5>2. QED
          BY <2>2, <2>8, <5>1
      <4>3. QED
        BY <4>1, <4>2
    <3> HIDE DEF u, kept, n
    <3>2. QED
      BY <2>5, <3>1 DEF UnreadableOf
  <2>11. CASE stop
    <3>1. text' = u /\ Len(text') = n + 1 /\ text' \in Seq(Pieces)
      BY <2>1, <2>5
    <3>2. parsed'.panicked /\ parsed'.shown = parsed.shown /\ Len(parsed'.shown) = n
      BY <2>2, <2>3, <2>11
    <3>3. UnreadableOf(u, n + 1)
      BY <2>10, <2>11
    <3>4. \A j \in 1..Len(parsed'.shown) : Fits(parsed'.shown, text', j)
      <4> HIDE DEF Fits, u
      <4>1. QED
        BY <2>9, <3>1, <3>2
    <3> HIDE DEF u, n, stop
    <3>5. QED
      BY <2>3, <3>1, <3>2, <3>3, <3>4 DEF MiniInv
  <2>12. CASE ~stop
    <3> DEFINE longer == Append(parsed.shown, Component(p, style))
    <3>1. text' = u /\ Len(text') = n + 1 /\ text' \in Seq(Pieces)
      BY <2>1, <2>5
    <3>2. ~parsed'.panicked /\ parsed'.shown = longer /\ style \in Styles
      BY <2>3, <2>12
    <3>3. ~UnreadableOf(u, n + 1)
      BY <2>10, <2>12
    <3>4. kept # 0
      BY <2>12
    <3>5. HasStyle(style, u, OpenOf(u, n + 1))
      <4>1. CASE p.tag = "close"
        <5>1. m - 1 \in 1..m /\ d = m - 1
          <6>1. m - 1 # 0
            BY <3>4, <4>1
          <6> HIDE DEF m
          <6>2. QED
            BY <2>2, <2>4, <2>8, <6>1
        <5>2. HasStyle(parsed.styles[m - 1], text, OpenBelow(text, n, d))
          BY <2>2, <5>1
        <5>3. HasStyle(parsed.styles[m - 1], u, OpenBelow(text, n, d))
          BY <2>2, <2>6, <5>2, StyleKept
        <5>4. QED
          BY <2>4, <4>1, <5>3
      <4>2. CASE p.tag # "close"
        <5>1. m \in 1..m /\ d + 1 = m
          <6> HIDE DEF m
          <6>1. QED
            BY <2>2, <2>4, <2>8
        <5>2. HasStyle(parsed.styles[m], text, OpenOf(text, n))
          BY <2>2, <2>4, <5>1
        <5>3. HasStyle(Styled(p, parsed.styles[m]), u, OpenOf(text, n) \cup {n + 1})
          BY <2>2, <2>4, <5>2, StyledBy
        <5>4. QED
          BY <2>4, <4>2, <5>3
      <4>3. QED
        BY <4>1, <4>2
    <3>6. Len(longer) = n + 1 /\ longer[n + 1] = Component(p, style) /\ \A j \in 1..n : longer[j] = parsed.shown[j]
      <4> HIDE DEF style
      <4>1. QED
        BY <2>2, <2>5
    <3>7. \A j \in 1..n + 1 : Fits(longer, u, j)
      <4> HIDE DEF longer, u, style
      <4>1. Fits(longer, u, n + 1)
        BY <2>5, <3>2, <3>3, <3>5, <3>6
      <4>2. \A j \in 1..n : Fits(longer, u, j)
        BY <2>9, <3>6
      <4>3. \A j \in 1..n + 1 : j \in 1..n \/ j = n + 1
        BY <2>5
      <4> HIDE DEF Fits
      <4>4. QED
        BY <4>1, <4>2, <4>3
    <3>8. Len(parsed'.styles) = Depth(u, n + 1) + 1 /\ Len(parsed'.styles) > 0
      <4>1. CASE p.tag = "close"
        <5>1. Len(parsed'.styles) = m - 1 /\ Depth(u, n + 1) = d - 1 /\ m - 1 # 0
          BY <2>3, <2>4, <2>12, <3>4, <4>1
        <5> HIDE DEF m, d
        <5>2. QED
          BY <2>2, <2>4, <2>8, <5>1
      <4>2. CASE p.tag # "close"
        <5>1. Len(parsed'.styles) = m + 1 /\ Depth(u, n + 1) = d + 1
          BY <2>3, <2>4, <2>12, <4>2
        <5> HIDE DEF m, d
        <5>2. QED
          BY <2>2, <2>4, <2>8, <5>1
      <4>3. QED
        BY <4>1, <4>2
    <3>9. \A h \in 1..Len(parsed'.styles) : HasStyle(parsed'.styles[h], u, OpenBelow(u, n + 1, h))
      <4>1. \A h \in 1..m : HasStyle(parsed.styles[h], u, OpenBelow(text, n, h))
        BY <2>2, <2>6, StyleKept
      <4>2. CASE p.tag = "close"
        <5>1. /\ Len(parsed'.styles) = m - 1 /\ \A h \in 1..m - 1 : parsed'.styles[h] = parsed.styles[h]
              /\ \A h \in 1..d : OpenBelow(u, n + 1, h) = OpenBelow(text, n, h)
          BY <2>3, <2>4, <2>12, <4>2
        <5>2. \A h \in 1..m - 1 : h \in 1..m /\ h \in 1..d
          BY <2>2, <2>4, <2>8
        <5> HIDE DEF m, d, u
        <5>3. QED
          BY <4>1, <5>1, <5>2
      <4>3. CASE p.tag # "close"
        <5>1. /\ Len(parsed'.styles) = m + 1 /\ parsed'.styles[m + 1] = style
              /\ \A h \in 1..m : parsed'.styles[h] = parsed.styles[h]
              /\ \A h \in 1..d + 1 : OpenBelow(u, n + 1, h) = OpenBelow(text, n, h)
              /\ OpenBelow(u, n + 1, d + 2) = OpenOf(u, n + 1)
          BY <2>3, <2>4, <2>12, <4>3
        <5>2. \A h \in 1..m + 1 : (h \in 1..m /\ h \in 1..d + 1) \/ h = m + 1
          BY <2>2, <2>4, <2>8
        <5>3. d + 2 = m + 1
          BY <2>2, <2>4
        <5> HIDE DEF m, d, u, style
        <5>4. QED
          BY <3>5, <4>1, <5>1, <5>2, <5>3
      <4>4. QED
        BY <4>2, <4>3
    <3>10. Len(parsed'.shown) = n + 1
      BY <3>2, <3>6
    <3>11. \A j \in 1..Len(parsed'.shown) : Fits(parsed'.shown, text', j)
      <4> HIDE DEF Fits, u, longer
      <4>1. QED
        BY <3>1, <3>2, <3>7, <3>10
    <3> HIDE DEF u, n, stop, longer, style, m
    <3>12. QED
      BY <2>3, <3>1, <3>2, <3>8, <3>9, <3>10, <3>11 DEF MiniInv
  <2>13. QED
    BY <2>11, <2>12
<1>3. QED
  BY <1>1, <1>2 DEF ParseNext

\* The invariant, in every state of Parse.
LEMMA MiniInvariant == ParseSpec => []MiniInv
  BY InitMiniInv, NextMiniInv, PTL DEF ParseSpec

\* A tag is open at a piece in the one wording and in the other.
LEMMA OpenAtOf ==
    ASSUME text \in Seq(Pieces), NEW j \in 1..Len(text), NEW i \in 1..j
    PROVE  i \in OpenOf(text, j) <=> OpenAt(i, j)
<1>1. Len(text) \in Nat /\ i \in 0..Len(text)
  OBVIOUS
<1>2. \A k \in i + 1..j : Balance(i + 1, k) <=> Depth(text, i) <= Depth(text, k)
  <2> SUFFICES ASSUME NEW k \in i + 1..j PROVE Balance(i + 1, k) <=> Depth(text, i) <= Depth(text, k)
    OBVIOUS
  <2>1. k \in i..Len(text)
    BY <1>1
  <2>2. QED
    BY <1>1, <2>1, BalanceOf
<1>3. QED
  BY <1>2 DEF OpenOf, OpenAt, Opens

\* A style is that of the open tags in the one wording and in the other.
LEMMA StyleAtOf ==
    ASSUME text \in Seq(Pieces), NEW j \in 1..Len(text), NEW s, HasStyle(s, text, OpenOf(text, j))
    PROVE  s = StyleAt(j)
<1> DEFINE tags == OpenOf(text, j)
           colored == {i \in OpenTags(j, {"color"}) : text[i].paint # NoPaint}
<1>1. \A i \in 1..j : i \in tags <=> OpenAt(i, j)
  BY OpenAtOf
<1>2. tags \subseteq 1..j /\ tags \subseteq Nat
  BY DEF OpenOf
<1>3. colored = Colored(text, tags)
  BY <1>1, <1>2 DEF OpenTags, Colored
<1>4. OpenTags(j, {"bold"}) # {} <=> \E i \in tags : text[i].tag = "bold"
  BY <1>1, <1>2 DEF OpenTags
<1>5. colored \subseteq Nat
  BY <1>2, <1>3 DEF Colored
<1>6. s \in Styles /\ HasColor(s.color, text, tags) /\ (s.bold <=> OpenTags(j, {"bold"}) # {})
  BY <1>4 DEF HasStyle
<1> HIDE DEF tags, colored
<1> DEFINE paint == IF colored = {} THEN White
                    ELSE text[CHOOSE i \in colored : \A k \in colored : k <= i].paint
<1>7. s.color = paint
  <2>1. CASE colored = {}
    BY <1>3, <1>6, <2>1 DEF HasColor
  <2>2. CASE colored # {}
    <3>1. PICK i \in colored : (\A k \in colored : k <= i) /\ s.color = text[i].paint
      BY <1>3, <1>6, <2>2 DEF HasColor
    <3> DEFINE last == CHOOSE x \in colored : \A k \in colored : k <= x
    <3>2. last \in colored /\ \A k \in colored : k <= last
      BY <3>1
    <3> HIDE DEF last
    <3>3. last = i
      <4>1. last <= i /\ i <= last /\ last \in Nat /\ i \in Nat
        BY <1>5, <3>1, <3>2
      <4>2. QED
        BY <4>1
    <3>4. paint = text[last].paint
      BY <2>2 DEF last
    <3> HIDE DEF paint
    <3>5. QED
      BY <3>1, <3>3, <3>4
  <2>3. QED
    BY <2>1, <2>2
<1>8. s.bold = (OpenTags(j, {"bold"}) # {})
  BY <1>6 DEF Styles
<1>9. s = [color |-> s.color, bold |-> s.bold]
  BY <1>6 DEF Styles
<1>10. StyleAt(j) = [color |-> paint, bold |-> OpenTags(j, {"bold"}) # {}]
  BY Zenon DEF StyleAt, colored
<1> HIDE DEF paint
<1>11. QED
  BY <1>7, <1>8, <1>9, <1>10, Zenon

\* Whatever string Parse reads: what it shows has the style of the tags that
\* are open where it stands.
THEOREM ShownInStyleOfOpenTags == ParseSpec => []StyleOfOpenTags
<1>1. MiniInv => StyleOfOpenTags
  <2> SUFFICES ASSUME MiniInv, NEW j \in DOMAIN parsed.shown,
                      parsed.shown[j].kind \in {"content", "gradient"}
               PROVE  parsed.shown[j].style = StyleAt(j)
    BY DEF StyleOfOpenTags
  <2>1. j \in 1..Len(parsed.shown) /\ j \in 1..Len(text) /\ text \in Seq(Pieces)
    BY DEF MiniInv
  <2>2. PICK s \in Styles : HasStyle(s, text, OpenOf(text, j)) /\ parsed.shown[j] = Component(text[j], s)
    BY <2>1 DEF MiniInv
  <2>3. s = StyleAt(j)
    BY <2>1, <2>2, StyleAtOf
  <2>4. Component(text[j], s).style = s
    BY <2>2 DEF Component, NoText, Blank, Content
  <2>5. QED
    BY <2>2, <2>3, <2>4
<1>2. QED
  BY <1>1, MiniInvariant, PTL

\* Whatever string Parse reads: it panics on an unreadable piece and on
\* nothing else.
THEOREM PanicsOnlyOnUnreadable == ParseSpec => []PanicsOnUnreadable
<1>1. MiniInv => PanicsOnUnreadable
  <2> SUFFICES ASSUME MiniInv PROVE parsed.panicked <=> \E j \in DOMAIN text : Unreadable(j)
    BY DEF PanicsOnUnreadable
  <2>1. text \in Seq(Pieces) /\ Len(text) \in Nat /\ DOMAIN text = 1..Len(text)
    BY DEF MiniInv
  <2>2. Depth(text, 0) = 0
    <3>1. \A T : T \cap (1..0) = {}
      OBVIOUS
    <3>2. Counted(Opened(text), 1, 0) = 0 /\ Counted(Shut(text), 1, 0) = 0
      BY <3>1, FS_EmptySet DEF Counted
    <3>3. QED
      BY <3>2 DEF Depth
  <2>3. \A j \in 1..Len(text) : Unreadable(j) <=> UnreadableOf(text, j)
    <3> SUFFICES ASSUME NEW j \in 1..Len(text) PROVE Unreadable(j) <=> UnreadableOf(text, j)
      OBVIOUS
    <3>1. 0 \in 0..Len(text) /\ j \in 0..Len(text) /\ 0 + 1 = 1
      BY <2>1
    <3>2. Balance(0 + 1, j) <=> Depth(text, 0) <= Depth(text, j)
      BY <2>1, <3>1, BalanceOf
    <3>3. Depth(text, j) \in Int
      <4>1. Counted(Opened(text), 1, j) \in Nat /\ Counted(Shut(text), 1, j) \in Nat
        BY <2>1, CountedType
      <4>2. QED
        BY <4>1 DEF Depth
    <3>4. Balance(1, j) <=> ~(Depth(text, j) < 0)
      BY <2>2, <3>1, <3>2, <3>3
    <3>5. QED
      BY <3>4 DEF Unreadable, UnreadableOf
  <2>4. CASE parsed.panicked
    <3>1. UnreadableOf(text, Len(text)) /\ Len(text) = Len(parsed.shown) + 1 /\ Len(parsed.shown) \in Nat
      BY <2>4 DEF MiniInv
    <3>2. Len(text) \in 1..Len(text)
      BY <3>1
    <3>3. QED
      BY <2>1, <2>3, <2>4, <3>1, <3>2
  <2>5. CASE ~parsed.panicked
    <3>1. \A j \in 1..Len(text) : ~UnreadableOf(text, j)
      BY <2>5 DEF MiniInv
    <3>2. QED
      BY <2>1, <2>3, <2>5, <3>1
  <2>6. QED
    BY <2>4, <2>5
<1>2. QED
  BY <1>1, MiniInvariant, PTL

\* Whatever gradient Parse reads: it starts at its first colour, never goes
\* back and stays between two of its colours.
THEOREM GradientsAlwaysRun == ParseSpec => []GradientsRun
<1>1. MiniInv => GradientsRun
  <2> SUFFICES ASSUME MiniInv, NEW j \in DOMAIN parsed.shown, parsed.shown[j].kind = "gradient"
               PROVE  LET parts == parsed.shown[j].parts IN
                      /\ parts # <<>> => parts[1].from = 0 /\ parts[1].part = 0
                      /\ \A i \in DOMAIN parts : parts[i].to < text[j].colors /\ parts[i].part < text[j].bytes
                      /\ \A i, k \in DOMAIN parts : i < k =>
                            parts[i].from * text[j].bytes + parts[i].part <= parts[k].from * text[j].bytes + parts[k].part
    BY DEF GradientsRun
  <2> DEFINE p == text[j]
             parts == parsed.shown[j].parts
  <2>1. j \in 1..Len(parsed.shown) /\ j \in 1..Len(text) /\ p \in Pieces
    BY DEF MiniInv
  <2>2. PICK s \in Styles : parsed.shown[j] = Component(p, s)
    BY <2>1 DEF MiniInv
  <2>3. p.tag = "gradient" /\ Known(p.paint) /\ parts = Gradient(p)
    BY <2>2 DEF Component, NoText, Blank, Content
  <2>4. p.colors < 2 => p.chars = 0
    <3>1. ~UnreadableOf(text, j)
      BY <2>1 DEF MiniInv
    <3>2. QED
      BY <2>1, <2>3, <3>1, PiecesAssumption DEF UnreadableOf, Known
  <2> HIDE DEF p, parts
  <2>5. p.chars \in Nat /\ p.bytes \in Nat /\ p.colors \in Nat /\ p.chars <= p.bytes
    BY <2>1, PiecesAssumption
  <2>6. DOMAIN parts = 1..p.chars /\ \A i \in 1..p.chars : parts[i] = LerpColor(i - 1, p.bytes, p.colors)
    BY <2>3 DEF Gradient
  <2>7. \A i \in 1..p.chars :
           /\ parts[i].from \in Nat /\ parts[i].to < p.colors /\ parts[i].part \in 0..p.bytes - 1
           /\ parts[i].from * p.bytes + parts[i].part = (i - 1) * (p.colors - 1)
    <3> SUFFICES ASSUME NEW i \in 1..p.chars
                 PROVE  /\ parts[i].from \in Nat /\ parts[i].to < p.colors /\ parts[i].part \in 0..p.bytes - 1
                        /\ parts[i].from * p.bytes + parts[i].part = (i - 1) * (p.colors - 1)
      OBVIOUS
    <3>1. i - 1 \in 0..p.chars - 1 /\ p.colors >= 2
      BY <2>4, <2>5
    <3>2. p \in AnyPieces
      BY <2>1 DEF AnyPieces
    <3>3. QED
      BY <2>6, <3>1, <3>2, LerpColorOf
  <2>8. parts # <<>> => parts[1].from = 0 /\ parts[1].part = 0
    <3> SUFFICES ASSUME parts # <<>> PROVE parts[1].from = 0 /\ parts[1].part = 0
      OBVIOUS
    <3>1. p.chars # 0
      <4>1. p.chars = 0 => Gradient(p) = <<>>
        BY DEF Gradient
      <4>2. QED
        BY <2>3, <4>1
    <3>2. 1 \in 1..p.chars /\ p.bytes \in Nat \ {0} /\ p.colors - 1 \in Nat
      BY <2>4, <2>5, <3>1
    <3>3. 0 * (p.colors - 1) = 0 /\ 0 \div p.bytes = 0 /\ 0 % p.bytes = 0
      BY <3>2
    <3>4. parts[1] = LerpColor(0, p.bytes, p.colors)
      BY <2>6, <3>2
    <3>5. QED
      BY <3>3, <3>4 DEF LerpColor
  <2>9. \A i \in DOMAIN parts : parts[i].to < p.colors /\ parts[i].part < p.bytes
    BY <2>5, <2>6, <2>7
  <2>10. \A i, k \in DOMAIN parts : i < k =>
            parts[i].from * p.bytes + parts[i].part <= parts[k].from * p.bytes + parts[k].part
    <3> SUFFICES ASSUME NEW i \in 1..p.chars, NEW k \in 1..p.chars, i < k
                 PROVE  parts[i].from * p.bytes + parts[i].part <= parts[k].from * p.bytes + parts[k].part
      BY <2>6
    <3>1. i - 1 \in Nat /\ k - 1 \in Nat /\ i - 1 <= k - 1 /\ p.colors - 1 \in Nat
      BY <2>4, <2>5
    <3>2. (i - 1) * (p.colors - 1) <= (k - 1) * (p.colors - 1)
      BY <3>1, ProductGrows
    <3>3. QED
      BY <2>7, <3>2
  <2>11. QED
    BY <2>8, <2>9, <2>10 DEF p, parts
<1>2. QED
  BY <1>1, MiniInvariant, PTL

-----------------------------------------------------------------------------
(* Answers of the commands.  A walk through an answer keeps how many tags  *)
(* are open: it opens and closes them one by one and never closes one that *)
(* is not open.                                                            *)

Walks(s, a, b) ==
    /\ s \in Seq(Own)
    /\ \E H \in [0..Len(s) -> Nat] :
          /\ H[0] = a /\ H[Len(s)] = b
          /\ \A i \in 1..Len(s) : H[i] = IF s[i].tag = "close" THEN H[i - 1] - 1 ELSE H[i - 1] + 1

\* Nothing walks nowhere.
LEMMA WalkNowhere == \A a \in Nat : Walks(<<>>, a, a)
<1> TAKE a \in Nat
<1> DEFINE H == [i \in 0..0 |-> a]
<1>1. <<>> \in Seq(Own) /\ Len(<<>>) = 0
  OBVIOUS
<1>2. H \in [0..0 -> Nat] /\ H[0] = a
  OBVIOUS
<1> HIDE DEF H
<1>3. QED
  BY <1>1, <1>2 DEF Walks

\* One more piece.
LEMMA WalkOn ==
    ASSUME NEW s, NEW a, NEW b \in Nat, Walks(s, a, b), NEW p \in Own, NEW c \in Nat,
           c = IF p.tag = "close" THEN b - 1 ELSE b + 1
    PROVE  Walks(Append(s, p), a, c)
<1> DEFINE n == Len(s)
           t == Append(s, p)
<1>1. s \in Seq(Own) /\ n \in Nat
  BY DEF Walks
<1>2. PICK H \in [0..n -> Nat] :
         /\ H[0] = a /\ H[n] = b
         /\ \A i \in 1..n : H[i] = IF s[i].tag = "close" THEN H[i - 1] - 1 ELSE H[i - 1] + 1
  BY DEF Walks
<1>3. t \in Seq(Own) /\ Len(t) = n + 1 /\ t[n + 1] = p /\ \A i \in 1..n : t[i] = s[i]
  BY <1>1
<1> DEFINE K == [i \in 0..n + 1 |-> IF i = n + 1 THEN c ELSE H[i]]
<1> HIDE DEF n, t
<1>4. K \in [0..n + 1 -> Nat] /\ K[n + 1] = c /\ \A i \in 0..n : K[i] = H[i]
  BY <1>1, <1>2
<1> HIDE DEF K
<1>5. \A i \in 1..n + 1 : (i \in 1..n /\ i \in 0..n /\ i - 1 \in 0..n) \/ (i = n + 1 /\ i - 1 = n)
  BY <1>1
<1>6. K[0] = a /\ K[n] = b
  BY <1>1, <1>2, <1>4
<1>7. \A i \in 1..n + 1 : K[i] = IF t[i].tag = "close" THEN K[i - 1] - 1 ELSE K[i - 1] + 1
  BY <1>2, <1>3, <1>4, <1>5, <1>6
<1>8. QED
  BY <1>3, <1>4, <1>6, <1>7 DEF Walks, t

\* One walk after another.
LEMMA WalkBoth ==
    ASSUME NEW s, NEW t, NEW a, NEW b, NEW c, Walks(s, a, b), Walks(t, b, c)
    PROVE  Walks(s \o t, a, c)
<1> DEFINE n == Len(s)
           m == Len(t)
           u == s \o t
<1>1. s \in Seq(Own) /\ t \in Seq(Own) /\ n \in Nat /\ m \in Nat
  BY DEF Walks
<1>2. PICK H \in [0..n -> Nat] :
         /\ H[0] = a /\ H[n] = b
         /\ \A i \in 1..n : H[i] = IF s[i].tag = "close" THEN H[i - 1] - 1 ELSE H[i - 1] + 1
  BY DEF Walks
<1>3. PICK G \in [0..m -> Nat] :
         /\ G[0] = b /\ G[m] = c
         /\ \A i \in 1..m : G[i] = IF t[i].tag = "close" THEN G[i - 1] - 1 ELSE G[i - 1] + 1
  BY DEF Walks
<1>4. u \in Seq(Own) /\ Len(u) = n + m
  BY <1>1
<1>5. (\A i \in 1..n : u[i] = s[i]) /\ \A i \in 1..m : u[n + i] = t[i]
  BY <1>1
<1> DEFINE K == [i \in 0..n + m |-> IF i <= n THEN H[i] ELSE G[i - n]]
<1> HIDE DEF n, m, u
<1>6. K \in [0..n + m -> Nat]
  BY <1>1, <1>2, <1>3
<1>7. \A i \in 0..n : K[i] = H[i]
  BY <1>1
<1>8. \A i \in 0..m : K[n + i] = G[i]
  <2> SUFFICES ASSUME NEW i \in 0..m PROVE K[n + i] = G[i]
    OBVIOUS
  <2>1. CASE i = 0
    BY <1>1, <1>2, <1>3, <2>1
  <2>2. CASE i # 0
    <3>1. n + i \in 0..n + m /\ ~(n + i <= n) /\ (n + i) - n = i
      BY <1>1, <2>2
    <3>2. QED
      BY <3>1
  <2>3. QED
    BY <2>1, <2>2
<1> HIDE DEF K
<1>9. K[0] = a /\ K[n + m] = c
  BY <1>1, <1>2, <1>3, <1>7, <1>8
<1>10. ASSUME NEW i \in 1..n + m
       PROVE  K[i] = IF u[i].tag = "close" THEN K[i - 1] - 1 ELSE K[i - 1] + 1
  <2>1. CASE i <= n
    <3>1. i \in 1..n /\ i \in 0..n /\ i - 1 \in 0..n
      BY <1>1, <2>1
    <3>2. QED
      BY <1>2, <1>5, <1>7, <3>1
  <2>2. CASE i > n
    <3> DEFINE k == i - n
    <3>1. k \in 1..m /\ k \in 0..m /\ k - 1 \in 0..m /\ n + k = i /\ n + (k - 1) = i - 1
      BY <1>1, <2>2
    <3> HIDE DEF k
    <3>2. K[i] = G[k] /\ K[i - 1] = G[k - 1] /\ u[i] = t[k]
      BY <1>5, <1>8, <3>1
    <3>3. QED
      BY <1>3, <3>1, <3>2
  <2>3. QED
    BY <1>1, <2>1, <2>2
<1>11. QED
  BY <1>4, <1>6, <1>9, <1>10 DEF Walks, u

\* A walk from the start is a string Parse reads to its end.
LEMMA WalksAreRead ==
    ASSUME NEW s, NEW b, Walks(s, 0, b)
    PROVE  ~Parse(s).panicked
<1> DEFINE n == Len(s)
           Outs == {o \in [styles : Seq(Styles), shown : Seq(Shown), panicked : BOOLEAN] :
                       ~o.panicked => Len(o.styles) > 0}
           step == [i \in 1..n |-> [o \in Outs |-> ParsePiece(o, s[i])]]
           Turned(f) == [i \in 0..n |-> IF i = 0 THEN Begun ELSE ParsePiece(f[i - 1], s[i])]
           out == CHOOSE f : f = Turned(f)
<1>1. s \in Seq(Own) /\ n \in Nat /\ \A i \in 1..n : s[i] \in Own
  BY DEF Walks
<1>2. PICK H \in [0..n -> Nat] :
         /\ H[0] = 0 /\ H[n] = b
         /\ \A i \in 1..n : H[i] = IF s[i].tag = "close" THEN H[i - 1] - 1 ELSE H[i - 1] + 1
  BY DEF Walks
<1>3. ASSUME NEW o \in Outs, NEW p \in Own, ~o.panicked,
             NEW h \in Nat, Len(o.styles) = h + 1, p.tag = "close" => h > 0
      PROVE  /\ ParsePiece(o, p) \in Outs /\ ~ParsePiece(o, p).panicked
             /\ Len(ParsePiece(o, p).styles) = (IF p.tag = "close" THEN h - 1 ELSE h + 1) + 1
  <2> DEFINE next == ParsePiece(o, p)
             m == Len(o.styles)
             kept == IF p.tag = "close" THEN m - 1 ELSE m
             stop == \/ kept = 0
                     \/ ~p.ended
                     \/ p.tag = "color" /\ p.colors = 0
                     \/ p.tag = "gradient" /\ p.paint # NoPaint /\ p.colors < 2 /\ p.chars > 0
  <2>1. o \in [styles : Seq(Styles), shown : Seq(Shown), panicked : BOOLEAN] /\ m > 0 /\ p \in AnyPieces
    BY <1>3 DEF AnyPieces
  <2>2. /\ next \in [styles : Seq(Styles), shown : Seq(Shown), panicked : BOOLEAN]
        /\ ~stop => /\ ~next.panicked
                    /\ p.tag = "close" => Len(next.styles) = m - 1
                    /\ p.tag # "close" => Len(next.styles) = m + 1
    BY <1>3, <2>1, PieceParsed
  <2>3. kept # 0
    <3>1. CASE p.tag = "close"
      BY <1>3, <3>1
    <3>2. CASE p.tag # "close"
      BY <1>3, <3>2
    <3>3. QED
      BY <3>1, <3>2
  <2>4. p.ended /\ p.tag # "color" /\ (p.tag = "gradient" => ~(p.colors < 2))
    BY OwnPieces
  <2>5. ~stop
    BY <2>3, <2>4
  <2> HIDE DEF next, stop, kept
  <2>6. /\ next \in [styles : Seq(Styles), shown : Seq(Shown), panicked : BOOLEAN] /\ ~next.panicked
        /\ p.tag = "close" => Len(next.styles) = m - 1
        /\ p.tag # "close" => Len(next.styles) = m + 1
    BY <2>2, <2>5
  <2>7. Len(next.styles) = (IF p.tag = "close" THEN h - 1 ELSE h + 1) + 1
    BY <1>3, <2>6
  <2>8. Len(next.styles) > 0
    <3>1. CASE p.tag = "close"
      BY <1>3, <2>7, <3>1
    <3>2. CASE p.tag # "close"
      BY <1>3, <2>7, <3>2
    <3>3. QED
      BY <3>1, <3>2
  <2>9. QED
    BY <2>6, <2>7, <2>8 DEF next
<1>4. \A o \in Outs : \A p \in Own : ParsePiece(o, p) \in Outs
  <2> SUFFICES ASSUME NEW o \in Outs, NEW p \in Own PROVE ParsePiece(o, p) \in Outs
    OBVIOUS
  <2>1. CASE o.panicked
    BY <2>1 DEF ParsePiece
  <2>2. CASE ~o.panicked
    <3> DEFINE next == ParsePiece(o, p)
               m == Len(o.styles)
               kept == IF p.tag = "close" THEN m - 1 ELSE m
               stop == \/ kept = 0
                       \/ ~p.ended
                       \/ p.tag = "color" /\ p.colors = 0
                       \/ p.tag = "gradient" /\ p.paint # NoPaint /\ p.colors < 2 /\ p.chars > 0
    <3>1. o \in [styles : Seq(Styles), shown : Seq(Shown), panicked : BOOLEAN] /\ m > 0 /\ p \in AnyPieces
      BY <2>2 DEF AnyPieces
    <3>2. /\ next \in [styles : Seq(Styles), shown : Seq(Shown), panicked : BOOLEAN]
          /\ stop => next.panicked
          /\ ~stop => /\ p.tag = "close" => Len(next.styles) = m - 1
                      /\ p.tag # "close" => Len(next.styles) = m + 1
      BY <2>2, <3>1, PieceParsed
    <3>3. ~stop => kept # 0
      OBVIOUS
    <3> HIDE DEF next, stop
    <3>4. m \in Nat
      BY <3>1
    <3>5. ~stop => Len(next.styles) > 0
      <4> HIDE DEF m
      <4>1. QED
        BY <3>1, <3>2, <3>3, <3>4
    <3>6. QED
      BY <3>2, <3>5 DEF next
  <2>3. QED
    BY <2>1, <2>2
<1>5. Begun \in Outs /\ ~Begun.panicked /\ Len(Begun.styles) = 1
  <2>1. Plain \in Styles
    BY PiecesAssumption DEF Plain, Styles
  <2>2. <<Plain>> \in Seq(Styles) /\ Len(<<Plain>>) = 1
    BY <2>1
  <2>3. <<>> \in Seq(Shown)
    OBVIOUS
  <2>4. QED
    BY <2>2, <2>3 DEF Begun
<1>6. step \in [1..n -> [Outs -> Outs]]
  BY <1>1, <1>4
<1>7. \E f \in Runs(n, Outs) : IsRun(f, n, Begun, step)
  <2>1. step \in Steps(n, Outs)
    BY <1>6 DEF Steps
  <2> HIDE DEF step, n, Outs
  <2>2. QED
    BY <1>1, <1>5, <2>1, StepsExist
<1>8. PICK f \in [0..n -> Outs] : f[0] = Begun /\ \A i \in 1..n : f[i] = ParsePiece(f[i - 1], s[i])
  <2>1. PICK f \in [0..n -> Outs] : f[0] = Begun /\ \A i \in 1..n : f[i] = step[i][f[i - 1]]
    BY <1>7 DEF Runs, IsRun
  <2> HIDE DEF Outs
  <2>2. \A i \in 1..n : f[i - 1] \in Outs
    BY <1>1, <2>1
  <2>3. \A i \in 1..n : f[i] = ParsePiece(f[i - 1], s[i])
    BY <2>1, <2>2
  <2>4. QED
    BY <2>1, <2>3
<1>9. f = Turned(f)
  <2> HIDE DEF Outs
  <2>1. \A i \in 0..n : i = 0 \/ i \in 1..n
    BY <1>1
  <2>2. QED
    BY <1>8, <2>1
<1>10. out = Turned(out)
  <2> HIDE DEF Turned
  <2>1. QED
    BY <1>9, Zenon
<1>11. out[0] = Begun /\ \A i \in 1..n : out[i] = ParsePiece(out[i - 1], s[i])
  <2> HIDE DEF out
  <2>1. \A i \in 1..n : i \in 0..n /\ i # 0
    BY <1>1
  <2>2. 0 \in 0..n
    BY <1>1
  <2>3. QED
    BY <1>10, <2>1, <2>2
<1>12. Parse(s) = out[n]
  BY Zenon DEF Parse
<1> DEFINE Reads(k) == out[k] \in Outs /\ ~out[k].panicked /\ Len(out[k].styles) = H[k] + 1
           Good == {k \in Nat : k <= n => Reads(k)}
<1> HIDE DEF out, n
<1>13. 0 \in Good
  <2>1. Reads(0)
    <3> HIDE DEF Outs
    <3>1. QED
      BY <1>2, <1>5, <1>11
  <2> HIDE DEF Reads
  <2>2. QED
    BY <2>1
<1>14. ASSUME NEW k \in Good PROVE k + 1 \in Good
  <2> SUFFICES ASSUME k + 1 <= n PROVE Reads(k + 1)
    <3> HIDE DEF Reads
    <3>1. QED
      BY <1>14
  <2>1. k \in Nat /\ k \in 0..n /\ k + 1 \in 1..n /\ k + 1 \in 0..n /\ (k + 1) - 1 = k
    <3> HIDE DEF Reads
    <3>1. k \in Nat
      OBVIOUS
    <3> HIDE DEF Good
    <3>2. QED
      BY <1>1, <3>1
  <2>2. Reads(k)
    <3> HIDE DEF Reads
    <3>1. QED
      BY <1>1, <2>1
  <2>3. out[k + 1] = ParsePiece(out[k], s[k + 1]) /\ s[k + 1] \in Own
    BY <1>1, <1>11, <2>1
  <2>4. H[k] \in Nat /\ H[k + 1] \in Nat
    BY <1>2, <2>1
  <2>5. H[k + 1] = IF s[k + 1].tag = "close" THEN H[k] - 1 ELSE H[k] + 1
    BY <1>2, <2>1
  <2>6. s[k + 1].tag = "close" => H[k] > 0
    BY <2>4, <2>5
  <2> HIDE DEF Outs
  <2>7. /\ ParsePiece(out[k], s[k + 1]) \in Outs /\ ~ParsePiece(out[k], s[k + 1]).panicked
        /\ Len(ParsePiece(out[k], s[k + 1]).styles) = (IF s[k + 1].tag = "close" THEN H[k] - 1 ELSE H[k] + 1) + 1
    BY <1>3, <2>2, <2>3, <2>4, <2>6
  <2>8. QED
    BY <2>3, <2>5, <2>7
<1>15. Good = Nat
  <2> HIDE DEF Reads
  <2>1. QED
    BY <1>13, <1>14, NumberInduction
<1>16. Reads(n)
  <2> HIDE DEF Reads
  <2>1. n \in Nat
    BY <1>1
  <2>2. n <= n
    BY <2>1
  <2>3. n \in Good
    <3> HIDE DEF Good
    <3>1. QED
      BY <1>15, <2>1
  <2>4. QED
    BY <2>2, <2>3
<1>17. QED
  BY <1>12, <1>16

\* A walk of one piece.
LEMMA WalkOne ==
    \A p \in Own : \A a \in Nat :
        /\ p.tag # "close" => Walks(<<p>>, a, a + 1)
        /\ p.tag = "close" => Walks(<<p>>, a + 1, a)
<1> TAKE p \in Own
<1> TAKE a \in Nat
<1>1. Append(<<>>, p) = <<p>>
  OBVIOUS
<1>2. CASE p.tag # "close"
  <2>1. a + 1 = (IF p.tag = "close" THEN a - 1 ELSE a + 1) /\ a + 1 \in Nat
    BY <1>2
  <2>2. Walks(Append(<<>>, p), a, a + 1)
    BY <2>1, WalkNowhere, WalkOn
  <2>3. QED
    BY <1>1, <1>2, <2>2
<1>3. CASE p.tag = "close"
  <2>1. a = (IF p.tag = "close" THEN (a + 1) - 1 ELSE (a + 1) + 1) /\ a + 1 \in Nat
    BY <1>3
  <2>2. Walks(<<>>, a + 1, a + 1)
    BY <2>1, WalkNowhere
  <2>3. Walks(Append(<<>>, p), a + 1, a)
    BY <2>1, <2>2, WalkOn
  <2>4. QED
    BY <1>1, <1>3, <2>3
<1>4. QED
  BY <1>2, <1>3

\* The answers' own words, from any height.
LEMMA WalkWords ==
    ASSUME NEW a \in Nat
    PROVE  /\ Walks(<<Hue>>, a, a + 1) /\ Walks(<<Bold>>, a, a + 1) /\ Walks(<<End>>, a + 1, a)
           /\ Walks(<<Hue, Hue>>, a, a + 2) /\ Walks(<<End, End>>, a + 2, a)
           /\ Walks(<<Hue, End>>, a, a) /\ Walks(<<End, Hue>>, a + 1, a + 1)
           /\ Walks(<<Faded(2), Faded(3)>>, a, a + 2)
<1>1. /\ Hue \in Own /\ Bold \in Own /\ End \in Own /\ Faded(2) \in Own /\ Faded(3) \in Own
  BY DEF Own
<1>2. /\ Hue.tag # "close" /\ Bold.tag # "close" /\ End.tag = "close"
      /\ Faded(2).tag # "close" /\ Faded(3).tag # "close"
  BY DEF Hue, Bold, End, Faded, Tagged
<1>3. \A p, q \in Own : Append(<<p>>, q) = <<p, q>>
  <2> TAKE p, q \in Own
  <2>1. <<p>> \in Seq(Own) /\ Len(<<p>>) = 1 /\ <<p>>[1] = p
    OBVIOUS
  <2> DEFINE one == <<p>>
  <2> HIDE DEF one
  <2>2. Append(one, q) \in Seq(Own) /\ Len(Append(one, q)) = 2 /\ Append(one, q)[1] = p /\ Append(one, q)[2] = q
    BY <2>1 DEF one
  <2>3. <<p, q>> \in Seq(Own) /\ Len(<<p, q>>) = 2 /\ <<p, q>>[1] = p /\ <<p, q>>[2] = q
    OBVIOUS
  <2>4. \A i \in 1..2 : i = 1 \/ i = 2
    OBVIOUS
  <2>5. \A s, t \in Seq(Own) : Len(s) = 2 /\ Len(t) = 2 /\ (\A i \in 1..2 : s[i] = t[i]) => s = t
    OBVIOUS
  <2>6. QED
    BY <2>2, <2>3, <2>4, <2>5 DEF one
<1>4. a + 1 \in Nat /\ a + 2 \in Nat /\ (a + 1) + 1 = a + 2 /\ (a + 1) - 1 = a /\ (a + 2) - 1 = a + 1
  OBVIOUS
<1> HIDE DEF Hue, Bold, End, Faded
<1>5. Walks(<<Hue>>, a, a + 1) /\ Walks(<<Bold>>, a, a + 1) /\ Walks(<<End>>, a + 1, a) /\ Walks(<<Faded(2)>>, a, a + 1)
  BY <1>1, <1>2, WalkOne
<1>6. Walks(<<End>>, a + 2, a + 1)
  BY <1>1, <1>2, <1>4, WalkOne
<1>7. \A s : \A p \in Own : Walks(s, a, a + 1) =>
         /\ p.tag # "close" => Walks(Append(s, p), a, a + 2)
         /\ p.tag = "close" => Walks(Append(s, p), a, a)
  BY <1>4, WalkOn
<1>8. \A s : Walks(s, a + 2, a + 1) => Walks(Append(s, End), a + 2, a)
  BY <1>1, <1>2, <1>4, WalkOn
<1>9. \A s : Walks(s, a + 1, a) => Walks(Append(s, Hue), a + 1, a + 1)
  BY <1>1, <1>2, <1>4, WalkOn
<1>10. /\ Walks(Append(<<Hue>>, Hue), a, a + 2) /\ Walks(Append(<<End>>, End), a + 2, a)
       /\ Walks(Append(<<Hue>>, End), a, a) /\ Walks(Append(<<End>>, Hue), a + 1, a + 1)
       /\ Walks(Append(<<Faded(2)>>, Faded(3)), a, a + 2)
  BY <1>1, <1>2, <1>5, <1>6, <1>7, <1>8, <1>9
<1>11. QED
  BY <1>1, <1>3, <1>5, <1>10

\* Strings that end at the height where they begin, whatever it is.
Rounds == {s \in Seq(Own) : \A a \in Nat : Walks(s, a, a)}

\* Two of them make one, and none is one.
LEMMA RoundTwice == <<>> \in Rounds /\ \A s, t \in Rounds : s \o t \in Rounds
<1>1. <<>> \in Rounds
  BY WalkNowhere DEF Rounds, Walks
<1>2. ASSUME NEW s \in Rounds, NEW t \in Rounds PROVE s \o t \in Rounds
  <2>1. \A a \in Nat : Walks(s \o t, a, a)
    BY WalkBoth DEF Rounds
  <2>2. s \o t \in Seq(Own)
    BY DEF Rounds
  <2>3. QED
    BY <2>1, <2>2 DEF Rounds
<1>3. QED
  BY <1>1, <1>2

\* A line of the listing.
LEMMA LineRounds == \A x, y : x = <<>> /\ y = <<>> => <<Hue>> \o x \o y \o <<End>> \in Rounds
<1> SUFFICES <<Hue>> \o <<>> \o <<>> \o <<End>> \in Rounds
  OBVIOUS
<1> DEFINE line == <<Hue>> \o <<>> \o <<>> \o <<End>>
<1>1. \A a \in Nat : Walks(line, a, a)
  <2> TAKE a \in Nat
  <2>1. a + 1 \in Nat
    OBVIOUS
  <2>2. Walks(<<Hue>>, a, a + 1) /\ Walks(<<End>>, a + 1, a) /\ Walks(<<>>, a + 1, a + 1)
    BY <2>1, WalkWords, WalkNowhere
  <2>3. Walks(<<Hue>> \o <<>>, a, a + 1)
    BY <2>2, WalkBoth
  <2>4. Walks(<<Hue>> \o <<>> \o <<>>, a, a + 1)
    BY <2>2, <2>3, WalkBoth
  <2>5. QED
    BY <2>2, <2>4, WalkBoth
<1>2. line \in Seq(Own)
  <2> HIDE DEF line
  <2>1. QED
    BY <1>1 DEF Walks
<1> HIDE DEF line
<1>3. line \in Rounds
  BY <1>1, <1>2 DEF Rounds
<1>4. QED
  BY <1>3 DEF line

\* The lines of a map whose keys and values have no tags in them.
LEMMA SectionRounds ==
    ASSUME NEW map, map = NilMap \/ IsFiniteSet(DOMAIN map), NEW order \in Ranged(map),
           \A s \in StringsIn(map) : PiecesOf[s] = <<>>
    PROVE  Section(map, order) \in Rounds
<1> DEFINE n == Len(order)
           Line(k) == <<Hue>> \o PiecesOf[k] \o PiecesOf[map[k]] \o <<End>>
           step == [i \in 1..n |-> [l \in Rounds |-> l \o Line(order[i])]]
           Listed1(f) == [i \in 0..n |-> IF i = 0 THEN <<>> ELSE f[i - 1] \o Line(order[i])]
           lines == CHOOSE f : f = Listed1(f)
<1>1. Told \in Rounds
  <2>1. \A a \in Nat : Walks(Told, a, a)
    BY WalkWords DEF Told
  <2>2. QED
    BY <2>1 DEF Rounds, Walks
<1>2. Section(map, order) = Told \o IF order = <<>> THEN Told ELSE lines[n]
  BY Zenon DEF Section
<1>3. CASE order = <<>>
  BY <1>1, <1>2, <1>3, RoundTwice
<1>4. CASE order # <<>>
  <2>1. map # NilMap /\ order \in [1..Cardinality(DOMAIN map) -> DOMAIN map]
    BY <1>4 DEF Ranged
  <2>2. Cardinality(DOMAIN map) \in Nat
    BY <2>1, FS_CardinalityType
  <2>3. n \in Nat /\ \A i \in 1..n : order[i] \in DOMAIN map
    BY <2>1, <2>2
  <2>4. \A i \in 1..n : PiecesOf[order[i]] = <<>> /\ PiecesOf[map[order[i]]] = <<>>
    BY <2>1, <2>3 DEF StringsIn
  <2>5. \A i \in 1..n : Line(order[i]) \in Rounds
    <3> HIDE DEF n
    <3>1. QED
      BY <2>4, LineRounds
  <2> HIDE DEF Line, n
  <2>6. \A i \in 1..n : \A l \in Rounds : l \o Line(order[i]) \in Rounds
    BY <2>5, RoundTwice
  <2>7. step \in Steps(n, Rounds)
    BY <2>6 DEF Steps
  <2>8. <<>> \in Rounds
    BY RoundTwice
  <2>9. \E f \in Runs(n, Rounds) : IsRun(f, n, <<>>, step)
    <3> HIDE DEF step
    <3>1. QED
      BY <2>3, <2>7, <2>8, StepsExist
  <2>10. PICK f \in [0..n -> Rounds] : f[0] = <<>> /\ \A i \in 1..n : f[i] = f[i - 1] \o Line(order[i])
    <3>1. PICK f \in [0..n -> Rounds] : f[0] = <<>> /\ \A i \in 1..n : f[i] = step[i][f[i - 1]]
      BY <2>9 DEF Runs, IsRun
    <3>2. \A i \in 1..n : f[i - 1] \in Rounds
      BY <2>3, <3>1
    <3>3. \A i \in 1..n : f[i] = f[i - 1] \o Line(order[i])
      BY <3>1, <3>2
    <3>4. QED
      BY <3>1, <3>3
  <2>11. f = Listed1(f)
    <3>1. \A i \in 0..n : i = 0 \/ i \in 1..n
      BY <2>3
    <3>2. QED
      BY <2>10, <3>1
  <2>12. lines = Listed1(lines)
    <3> HIDE DEF Listed1
    <3>1. QED
      BY <2>11, Zenon
  <2>13. lines[0] = <<>> /\ \A i \in 1..n : lines[i] = lines[i - 1] \o Line(order[i])
    <3> HIDE DEF lines
    <3>1. \A i \in 1..n : i \in 0..n /\ i # 0
      BY <2>3
    <3>2. 0 \in 0..n
      BY <2>3
    <3>3. QED
      BY <2>12, <3>1, <3>2
  <2>14. \A i \in 0..n : lines[i] \in Rounds
    <3> HIDE DEF lines
    <3>1. \A i \in 1..n : lines[i - 1] \in Rounds => lines[i] \in Rounds
      BY <2>6, <2>13
    <3>2. QED
      BY <2>3, <2>8, <2>13, <3>1, StepsStay
  <2> HIDE DEF lines
  <2>15. lines[n] \in Rounds
    BY <2>3, <2>14
  <2>16. QED
    BY <1>1, <1>2, <1>4, <2>15, RoundTwice
<1>5. QED
  BY <1>3, <1>4

TwoMaps(m) ==
    /\ m \in [labels : {m.labels}, annotations : {m.annotations}]
    /\ \A map \in {m.labels, m.annotations} : map = NilMap \/ IsFiniteSet(DOMAIN map)
Readable(pieces) == \E b \in Nat : Walks(pieces, 0, b)
AnswersInv ==
    /\ known = [n \in Words |-> known[n]]
    /\ \A n \in Words : known[n] = Nobody \/ TwoMaps(known[n])
    /\ (\A s \in answer.pasted : PiecesOf[s] = <<>>) => Readable(answer.pieces)

\* An answer keeps the invariant when it can be read, should nothing pasted
\* into it have a tag.
LEMMA SaidReadable ==
    ASSUME NEW pieces, NEW strings, Say(pieces, strings), (\A s \in strings : PiecesOf[s] = <<>>) => Readable(pieces)
    PROVE  (\A s \in answer'.pasted : PiecesOf[s] = <<>>) => Readable(answer'.pieces)
<1>1. answer' = [pieces |-> pieces, pasted |-> strings, online |-> 0]
  BY DEF Say
<1>2. answer'.pieces = pieces /\ answer'.pasted = strings
  BY <1>1
<1>3. QED
  BY <1>2

\* The fixed answers, and those with a string in them.
LEMMA ToldReadable == Readable(Told) /\ \A s : PiecesOf[s] = <<>> => Readable(ToldOf(s))
<1>1. Readable(Told)
  BY WalkWords DEF Told, Readable
<1>2. \A x : x = <<>> => Walks(<<Hue>> \o x \o <<End>>, 0, 0)
  <2> SUFFICES Walks(<<Hue>> \o <<>> \o <<End>>, 0, 0)
    OBVIOUS
  <2>1. Walks(<<Hue>>, 0, 1) /\ Walks(<<>>, 1, 1) /\ Walks(<<End>>, 1, 0)
    BY WalkWords, WalkNowhere
  <2>2. Walks(<<Hue>> \o <<>>, 0, 1)
    BY <2>1, WalkBoth
  <2>3. QED
    BY <2>1, <2>2, WalkBoth
<1>3. QED
  BY <1>1, <1>2 DEF ToldOf, Readable

\* The answers of /join and of setting an annotation.
LEMMA SentencesReadable ==
    \A x, y : x = <<>> /\ y = <<>> =>
        /\ Walks(<<Hue>> \o x \o <<Hue>> \o y \o <<End, End>>, 0, 0)
        /\ \A z : z = <<>> => Walks(<<Hue, Hue>> \o x \o y \o <<End, Hue>> \o z \o <<End, End>>, 0, 0)
<1> SUFFICES /\ Walks(<<Hue>> \o <<>> \o <<Hue>> \o <<>> \o <<End, End>>, 0, 0)
             /\ Walks(<<Hue, Hue>> \o <<>> \o <<>> \o <<End, Hue>> \o <<>> \o <<End, End>>, 0, 0)
  OBVIOUS
<1>1. 0 \in Nat /\ 1 \in Nat /\ 2 \in Nat
  OBVIOUS
<1>2. /\ Walks(<<Hue>>, 0, 1) /\ Walks(<<Hue, Hue>>, 0, 2) /\ Walks(<<End, End>>, 2, 0)
  BY WalkWords
<1>3. Walks(<<Hue>>, 1, 2) /\ Walks(<<End, Hue>>, 2, 2)
  BY <1>1, WalkWords
<1>4. Walks(<<>>, 1, 1) /\ Walks(<<>>, 2, 2)
  BY <1>1, WalkNowhere
<1>5. Walks(<<Hue>> \o <<>>, 0, 1)
  BY <1>2, <1>4, WalkBoth
<1>6. Walks(<<Hue>> \o <<>> \o <<Hue>>, 0, 2)
  BY <1>3, <1>5, WalkBoth
<1>7. Walks(<<Hue>> \o <<>> \o <<Hue>> \o <<>>, 0, 2)
  BY <1>4, <1>6, WalkBoth
<1>8. Walks(<<Hue>> \o <<>> \o <<Hue>> \o <<>> \o <<End, End>>, 0, 0)
  BY <1>2, <1>7, WalkBoth
<1>9. Walks(<<Hue, Hue>> \o <<>>, 0, 2)
  BY <1>2, <1>4, WalkBoth
<1>10. Walks(<<Hue, Hue>> \o <<>> \o <<>>, 0, 2)
  BY <1>4, <1>9, WalkBoth
<1>11. Walks(<<Hue, Hue>> \o <<>> \o <<>> \o <<End, Hue>>, 0, 2)
  BY <1>3, <1>10, WalkBoth
<1>12. Walks(<<Hue, Hue>> \o <<>> \o <<>> \o <<End, Hue>> \o <<>>, 0, 2)
  BY <1>4, <1>11, WalkBoth
<1>13. Walks(<<Hue, Hue>> \o <<>> \o <<>> \o <<End, Hue>> \o <<>> \o <<End, End>>, 0, 0)
  BY <1>2, <1>12, WalkBoth
<1>14. QED
  BY <1>8, <1>13

\* The answer of a check, in full: no action has a tag in it.
LEMMA DecisionReadable == \A x : x = <<>> =>
    Readable(<<Hue, Bold, End, Hue, End, Hue>> \o x \o <<End, Hue, End, End>>)
<1> SUFFICES Readable(<<Hue, Bold, End, Hue, End, Hue>> \o <<>> \o <<End, Hue, End, End>>)
  OBVIOUS
<1>1. /\ Hue \in Own /\ Bold \in Own /\ End \in Own
      /\ Hue.tag # "close" /\ Bold.tag # "close" /\ End.tag = "close"
  BY DEF Own, Hue, Bold, End, Tagged
<1> HIDE DEF Hue, Bold, End
<1>2. Walks(<<Hue, Bold, End, Hue, End, Hue>>, 0, 2)
  <2> DEFINE s == <<Hue, Bold, End, Hue, End, Hue>>
             H == [i \in 0..6 |-> IF i = 0 THEN 0 ELSE IF i \in {2, 4, 6} THEN 2 ELSE 1]
  <2>1. s \in Seq(Own) /\ Len(s) = 6
    BY <1>1
  <2>2. H \in [0..6 -> Nat] /\ H[0] = 0 /\ H[6] = 2
    OBVIOUS
  <2>3. H[1] = 1 /\ H[2] = 2 /\ H[3] = 1 /\ H[4] = 2 /\ H[5] = 1
    OBVIOUS
  <2>4. s[1] = Hue /\ s[2] = Bold /\ s[3] = End /\ s[4] = Hue /\ s[5] = End /\ s[6] = Hue
    OBVIOUS
  <2> HIDE DEF s, H
  <2>5. \A i \in 1..6 : i = 1 \/ i = 2 \/ i = 3 \/ i = 4 \/ i = 5 \/ i = 6
    OBVIOUS
  <2>6. \A i \in 1..6 : H[i] = IF s[i].tag = "close" THEN H[i - 1] - 1 ELSE H[i - 1] + 1
    BY <1>1, <2>2, <2>3, <2>4, <2>5
  <2>7. QED
    BY <2>1, <2>2, <2>6 DEF Walks, s
<1>3. Walks(<<End, Hue, End, End>>, 2, 0)
  <2> DEFINE s == <<End, Hue, End, End>>
             H == [i \in 0..4 |-> IF i = 4 THEN 0 ELSE IF i \in {0, 2} THEN 2 ELSE 1]
  <2>1. s \in Seq(Own) /\ Len(s) = 4
    BY <1>1
  <2>2. H \in [0..4 -> Nat] /\ H[0] = 2 /\ H[4] = 0
    OBVIOUS
  <2>3. H[1] = 1 /\ H[2] = 2 /\ H[3] = 1
    OBVIOUS
  <2>4. s[1] = End /\ s[2] = Hue /\ s[3] = End /\ s[4] = End
    OBVIOUS
  <2> HIDE DEF s, H
  <2>5. \A i \in 1..4 : i = 1 \/ i = 2 \/ i = 3 \/ i = 4
    OBVIOUS
  <2>6. \A i \in 1..4 : H[i] = IF s[i].tag = "close" THEN H[i - 1] - 1 ELSE H[i - 1] + 1
    BY <1>1, <2>2, <2>3, <2>4, <2>5
  <2>7. QED
    BY <2>1, <2>2, <2>6 DEF Walks, s
<1>4. Walks(<<>>, 2, 2)
  BY WalkNowhere
<1>5. Walks(<<Hue, Bold, End, Hue, End, Hue>> \o <<>>, 0, 2)
  BY <1>2, <1>4, WalkBoth
<1>6. Walks(<<Hue, Bold, End, Hue, End, Hue>> \o <<>> \o <<End, Hue, End, End>>, 0, 0)
  BY <1>3, <1>5, WalkBoth
<1>7. QED
  BY <1>6 DEF Readable

\* The heading of a listing.
LEMMA HeadingWalks == Walks(<<Hue, Hue>> \o <<>> \o <<End, End>>, 0, 0)
<1>1. Walks(<<Hue, Hue>>, 0, 2) /\ Walks(<<End, End>>, 2, 0)
  BY WalkWords
<1>2. Walks(<<>>, 2, 2)
  BY WalkNowhere
<1>3. Walks(<<Hue, Hue>> \o <<>>, 0, 2)
  BY <1>1, <1>2, WalkBoth
<1>4. QED
  BY <1>1, <1>3, WalkBoth

\* The listing of a player's metadata.
LEMMA ListingReadable ==
    ASSUME NEW name, NEW m, TwoMaps(m), NEW labels \in Ranged(m.labels), NEW annotations \in Ranged(m.annotations),
           \A s \in {name} \cup StringsIn(m.labels) \cup StringsIn(m.annotations) : PiecesOf[s] = <<>>
    PROVE  Readable(Listing(name, m, labels, annotations))
<1> DEFINE of == PiecesOf[name]
           first == Section(m.labels, labels)
           second == Section(m.annotations, annotations)
<1>1. of = <<>>
  OBVIOUS
<1>2. Walks(first, 0, 0) /\ Walks(second, 0, 0)
  <2>1. first \in Rounds /\ second \in Rounds
    BY SectionRounds DEF TwoMaps
  <2>2. QED
    BY <2>1 DEF Rounds
<1>3. Walks(<<Hue, Hue>> \o <<>> \o <<End, End>>, 0, 0)
  BY HeadingWalks
<1> HIDE DEF of, first, second
<1>4. Walks(<<Hue, Hue>> \o of \o <<End, End>>, 0, 0)
  BY <1>1, <1>3
<1>5. Walks(<<Hue, Hue>> \o of \o <<End, End>> \o first, 0, 0)
  BY <1>2, <1>4, WalkBoth
<1>6. Walks(<<Hue, Hue>> \o of \o <<End, End>> \o first \o second, 0, 0)
  BY <1>2, <1>5, WalkBoth
<1>7. QED
  BY <1>6 DEF Listing, Readable, of, first, second

\* A player whose annotation is set still has two maps.
LEMMA SetKeepsMaps == ASSUME NEW m, TwoMaps(m), NEW k, NEW v PROVE TwoMaps(SetAnnotation(m, k, v))
<1> DEFINE w == With(m.annotations, k, v)
           new == SetAnnotation(m, k, v)
<1>1. w # NilMap => IsFiniteSet(DOMAIN w)
  <2>1. CASE m.annotations = NilMap
    <3>1. DOMAIN w = {k}
      BY <2>1 DEF With
    <3>2. QED
      BY <3>1, FS_Singleton
  <2>2. CASE m.annotations # NilMap
    <3>1. DOMAIN w = {k} \cup DOMAIN m.annotations
      BY <2>2 DEF With, Assigned
    <3>2. IsFiniteSet(DOMAIN m.annotations)
      BY <2>2 DEF TwoMaps
    <3>3. IsFiniteSet(DOMAIN m.annotations \cup {k})
      BY <3>2, FS_AddElement
    <3>4. DOMAIN m.annotations \cup {k} = {k} \cup DOMAIN m.annotations
      OBVIOUS
    <3>5. QED
      BY <3>1, <3>3, <3>4
  <2>3. QED
    BY <2>1, <2>2
<1>2. new = [m EXCEPT !.annotations = w]
  BY DEF SetAnnotation
<1> HIDE DEF w, new
<1>3. m \in [labels : {m.labels}, annotations : {m.annotations}]
  BY DEF TwoMaps
<1>4. new.labels = m.labels /\ new.annotations = w /\ new \in [labels : {new.labels}, annotations : {new.annotations}]
  BY <1>2, <1>3
<1>5. \A map \in {new.labels, new.annotations} : map = NilMap \/ IsFiniteSet(DOMAIN map)
  BY <1>1, <1>4 DEF TwoMaps
<1>6. QED
  BY <1>4, <1>5 DEF TwoMaps, new

\* Every answer the handlers make can be read.
LEMMA NextAnswersInv == AnswersInv /\ [CommandsNext]_commandVars => AnswersInv'
<1> SUFFICES ASSUME AnswersInv, [CommandsNext]_commandVars PROVE AnswersInv'
  OBVIOUS
<1> DEFINE Answered == (\A s \in answer.pasted : PiecesOf[s] = <<>>) => Readable(answer.pieces)
           KnownKept == known = [n \in Words |-> known[n]] /\ \A n \in Words : known[n] = Nobody \/ TwoMaps(known[n])
<1>1. KnownKept /\ Answered
  BY DEF AnswersInv
<1>2. UNCHANGED known => KnownKept'
  BY <1>1
<1> HIDE DEF Answered, KnownKept
<1>3. Answered' /\ KnownKept' => AnswersInv'
  BY DEF AnswersInv, Answered, KnownKept
<1>4. \A pieces, strings : Say(pieces, strings) /\ ((\A s \in strings : PiecesOf[s] = <<>>) => Readable(pieces)) => Answered'
  BY SaidReadable DEF Answered
<1>5. CASE Refuse
  BY <1>2, <1>3, <1>4, <1>5, ToldReadable DEF Refuse
<1>6. CASE AnswerPing
  <2>1. answer'.pieces = <<Faded(2), Faded(3)>> /\ UNCHANGED known
    BY <1>6 DEF AnswerPing
  <2>2. Readable(<<Faded(2), Faded(3)>>)
    BY WalkWords DEF Readable
  <2>3. Answered'
    BY <2>1, <2>2 DEF Answered
  <2>4. QED
    BY <1>2, <1>3, <2>1, <2>3
<1>7. ASSUME NEW name \in Words, AnswerJoin(name) PROVE AnswersInv'
  <2> DEFINE location == GetAnnotation(known[name], JoinKey)
  <2>1. UNCHANGED known
    BY <1>7 DEF AnswerJoin
  <2>2. \/ Say(ToldOf(name), {name})
        \/ Say(Connecting(name, location.text), {name, location.text})
        \/ Say(ToldOf(location.text), {location.text})
    BY <1>7 DEF AnswerJoin
  <2> HIDE DEF location
  <2>3. PiecesOf[name] = <<>> /\ PiecesOf[location.text] = <<>> => Readable(Connecting(name, location.text))
    BY SentencesReadable DEF Connecting, Readable
  <2>4. Answered'
    BY <1>4, <2>2, <2>3, ToldReadable
  <2>5. QED
    BY <1>2, <1>3, <2>1, <2>4
<1>8. ASSUME NEW name \in Words, AnswerMetadata(name) PROVE AnswersInv'
  <2>1. UNCHANGED known
    BY <1>8 DEF AnswerMetadata
  <2>2. CASE known[name] = Nobody
    <3>1. Say(ToldOf(name), {name})
      BY <1>8, <2>2 DEF AnswerMetadata
    <3>2. Answered'
      BY <1>4, <3>1, ToldReadable
    <3>3. QED
      BY <1>2, <1>3, <2>1, <3>2
  <2>3. CASE known[name] # Nobody
    <3>1. PICK labels \in Ranged(known[name].labels), annotations \in Ranged(known[name].annotations) :
             Say(Listing(name, known[name], labels, annotations),
                 {name} \cup StringsIn(known[name].labels) \cup StringsIn(known[name].annotations))
      BY <1>8, <2>3 DEF AnswerMetadata
    <3>2. TwoMaps(known[name])
      BY <1>1, <2>3 DEF KnownKept
    <3>3. (\A s \in {name} \cup StringsIn(known[name].labels) \cup StringsIn(known[name].annotations) :
              PiecesOf[s] = <<>>) => Readable(Listing(name, known[name], labels, annotations))
      BY <3>2, ListingReadable
    <3>4. Answered'
      BY <1>4, <3>1, <3>3
    <3>5. QED
      BY <1>2, <1>3, <2>1, <3>4
  <2>4. QED
    BY <2>2, <2>3
<1>9. ASSUME NEW name \in Words, NEW k \in Typed, NEW v \in Typed, AnswerSetAnnotation(name, k, v) PROVE AnswersInv'
  <2>1. Say(Confirmed(name, k, v), {name, k, v})
    BY <1>9 DEF AnswerSetAnnotation
  <2>2. PiecesOf[name] = <<>> /\ PiecesOf[k] = <<>> /\ PiecesOf[v] = <<>> => Readable(Confirmed(name, k, v))
    BY SentencesReadable DEF Confirmed, Readable
  <2>3. Answered'
    BY <1>4, <2>1, <2>2
  <2>4. CASE known[name] = Nobody
    BY <1>2, <1>3, <1>9, <2>3, <2>4 DEF AnswerSetAnnotation
  <2>5. CASE known[name] # Nobody
    <3>1. known' = [known EXCEPT ![name] = SetAnnotation(known[name], k, v)]
      BY <1>9, <2>5 DEF AnswerSetAnnotation
    <3>2. TwoMaps(SetAnnotation(known[name], k, v))
      BY <1>1, <2>5, SetKeepsMaps DEF KnownKept
    <3> DEFINE new == SetAnnotation(known[name], k, v)
    <3> HIDE DEF new
    <3>3. known' = [n \in Words |-> IF n = name THEN new ELSE known[n]]
      BY <1>1, <3>1 DEF KnownKept, new
    <3>4. known' = [n \in Words |-> known'[n]]
      BY <3>3
    <3>5. \A n \in Words : known'[n] = new \/ known'[n] = known[n]
      BY <3>3
    <3>6. \A n \in Words : known'[n] = Nobody \/ TwoMaps(known'[n])
      BY <1>1, <3>2, <3>5 DEF KnownKept, new
    <3>7. KnownKept'
      BY <3>4, <3>6 DEF KnownKept
    <3>8. QED
      BY <1>3, <2>3, <3>7
  <2>6. QED
    BY <2>4, <2>5
<1>10. ASSUME NEW name \in Words, NEW m \in Profile, PlayerChanges(name, m) PROVE AnswersInv'
  <2>1. known' = [known EXCEPT ![name] = m] /\ UNCHANGED answer
    BY <1>10 DEF PlayerChanges
  <2>2. m = Nobody \/ TwoMaps(m)
    BY ProfileAssumption DEF TwoMaps
  <2>3. known' = [n \in Words |-> IF n = name THEN m ELSE known[n]]
    BY <1>1, <2>1 DEF KnownKept
  <2>4. known' = [n \in Words |-> known'[n]]
    BY <2>3
  <2>5. \A n \in Words : known'[n] = m \/ known'[n] = known[n]
    BY <2>3
  <2>6. \A n \in Words : known'[n] = Nobody \/ TwoMaps(known'[n])
    BY <1>1, <2>2, <2>5 DEF KnownKept
  <2>7. KnownKept' /\ Answered'
    BY <1>1, <2>1, <2>4, <2>6 DEF KnownKept, Answered
  <2>8. QED
    BY <1>3, <2>7
<1>11. ASSUME NEW act \in Actions, NEW s \in Typed, AnswerPermissionCheck(act, s) PROVE AnswersInv'
  <2>1. UNCHANGED known /\ (Say(ToldOf(s), {s}) \/ Say(Decision(act), {}))
    BY <1>11 DEF AnswerPermissionCheck
  <2>2. Readable(Decision(act))
    BY DecisionReadable, StringsAssumption DEF Decision
  <2>3. Answered'
    BY <1>4, <2>1, <2>2, ToldReadable
  <2>4. QED
    BY <1>2, <1>3, <2>1, <2>3
<1>12. CASE UNCHANGED commandVars
  <2>1. UNCHANGED known /\ UNCHANGED answer
    BY <1>12 DEF commandVars
  <2>2. Answered'
    BY <1>1, <2>1 DEF Answered
  <2>3. QED
    BY <1>2, <1>3, <2>1, <2>2
<1>13. QED
  BY <1>5, <1>6, <1>7, <1>8, <1>9, <1>10, <1>11, <1>12 DEF CommandsNext

\* Whatever players, strings and metadata there are: a command panics on its
\* answer only because of a "<" in what was pasted into it.
THEOREM AnswersAlwaysReadable == CommandsSpec => []AnswersReadable
<1>1. CommandsInit => AnswersInv
  <2> SUFFICES ASSUME CommandsInit PROVE AnswersInv
    OBVIOUS
  <2>1. known \in [Words -> Profile] /\ answer = [pieces |-> <<>>, pasted |-> {}, online |-> 0]
    BY DEF CommandsInit
  <2>2. \A n \in Words : known[n] = Nobody \/ TwoMaps(known[n])
    BY <2>1, ProfileAssumption DEF TwoMaps
  <2>3. Readable(<<>>)
    BY WalkNowhere DEF Readable
  <2>4. answer.pieces = <<>>
    BY <2>1
  <2>5. known = [n \in Words |-> known[n]]
    BY <2>1
  <2>6. QED
    BY <2>2, <2>3, <2>4, <2>5 DEF AnswersInv
<1>2. AnswersInv => AnswersReadable
  <2> SUFFICES ASSUME AnswersInv, \A s \in answer.pasted : PiecesOf[s] = <<>>
               PROVE  ~Parse(answer.pieces).panicked
    BY DEF AnswersReadable
  <2>1. PICK b \in Nat : Walks(answer.pieces, 0, b)
    BY DEF AnswersInv, Readable
  <2>2. QED
    BY <2>1, WalksAreRead
<1>3. QED
  BY <1>1, <1>2, NextAnswersInv, PTL DEF CommandsSpec
=============================================================================
