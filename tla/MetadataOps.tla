---------------------------- MODULE MetadataOps ----------------------------
(***************************************************************************)
(* The metadata type (util/metadata/metadata.go): labels and annotations,  *)
(* two Go maps from strings to strings, either of which may be nil.  A     *)
(* method that changes its receiver is an operator that returns it.        *)
(*                                                                         *)
(* What an annotation holds is a text.  A text that is a JSON list of      *)
(* strings is written as the sequence it encodes; of the others only those *)
(* that some method recognises are told apart.                             *)
(***************************************************************************)
EXTENDS Naturals, SequencesExt

CONSTANTS
    NilMap,       \* a map nobody made
    EmptyText, TrueText, FalseText, OtherText

Texts == {EmptyText, TrueText, FalseText, OtherText}

Has(map, k) == map # NilMap /\ k \in DOMAIN map

\* map[k] = v, of a map that is not nil.
Assigned(map, k, v) == [j \in {k} \cup DOMAIN map |-> IF j = k THEN v ELSE map[j]]

\* Faulty variant: a nil map stays one.
WithoutMaking(map, k, v) == IF map = NilMap THEN NilMap ELSE Assigned(map, k, v)

\* The map is made when it is nil.
With(map, k, v) == IF map = NilMap THEN [j \in {k} |-> v] ELSE Assigned(map, k, v)

SetLabel(m, k, v) == [m EXCEPT !.labels = With(@, k, v)]
SetAnnotation(m, k, v) == [m EXCEPT !.annotations = With(@, k, v)]

\* Reading a nil map finds nothing, in GetLabel and in MatchesLabels.
MatchesLabels(m, selectors) ==
    \A k \in DOMAIN selectors : Has(m.labels, k) /\ m.labels[k] = selectors[k]

GetAnnotation(m, k) ==
    IF Has(m.annotations, k) THEN [found |-> TRUE, text |-> m.annotations[k]]
                             ELSE [found |-> FALSE, text |-> EmptyText]

SetAnnotationStringSlice(m, k, values) == SetAnnotation(m, k, values)

\* A text that is no list is reported as found, with an error and no values.
GetAnnotationStringSlice(m, k) ==
    LET raw == GetAnnotation(m, k) IN
    [found  |-> raw.found,
     failed |-> raw.found /\ raw.text \in Texts \ {EmptyText},
     values |-> IF raw.found /\ raw.text \notin Texts THEN raw.text ELSE <<>>]

AddAnnotationStringValue(m, k, v) ==
    LET slice == GetAnnotationStringSlice(m, k) IN
    IF slice.failed \/ Contains(slice.values, v)
    THEN m
    ELSE SetAnnotationStringSlice(m, k, Append(slice.values, v))

\* The loop of RemoveAnnotationStringValue: every occurrence goes.
Without(values, v) ==
    LET kept[i \in 0..Len(values)] ==
            IF i = 0 THEN <<>>
            ELSE IF values[i] = v THEN kept[i - 1] ELSE Append(kept[i - 1], values[i])
    IN kept[Len(values)]

\* The last one leaves an empty list, not an absent key.
RemoveAnnotationStringValue(m, k, v) ==
    LET slice == GetAnnotationStringSlice(m, k) IN
    IF slice.failed \/ ~Contains(slice.values, v)
    THEN m
    ELSE SetAnnotationStringSlice(m, k, Without(slice.values, v))

HasAnnotationStringValue(m, k, v) == Contains(GetAnnotationStringSlice(m, k).values, v)

GetAnnotationBoolValue(m, k) ==
    LET raw == GetAnnotation(m, k) IN
    [value  |-> raw.text = TrueText,
     exists |-> raw.found,
     failed |-> raw.found /\ raw.text \notin Texts \ {OtherText}]
=============================================================================
