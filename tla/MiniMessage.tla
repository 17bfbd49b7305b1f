----------------------------- MODULE MiniMessage ----------------------------
(***************************************************************************)
(* Parse of util/mini/mini.go, which makes a styled text of a MiniMessage  *)
(* string.  The string is the sequence of its pieces between "<"s; of a    *)
(* piece the model keeps which tag it begins with, whether it has the ">"  *)
(* that ends it, and the length of what follows.                           *)
(*                                                                         *)
(* Parse panics where Go indexes out of range.                             *)
(***************************************************************************)
EXTENDS Naturals, SequencesExt, FiniteSets

CONSTANTS
    Paints,      \* colours ParseColor knows
    NoPaint,     \* a name it does not know
    White,
    Pieces,      \* [tag, ended, paint, colors (how many are named), chars, bytes]
    MaxPieces    \* bound: pieces of a string

Tags == {"color", "bold", "gradient", "other", "close"}

ASSUME PiecesAssumption ==
    /\ White \in Paints /\ NoPaint \notin Paints
    /\ \A p \in Pieces :
          /\ p.tag \in Tags /\ p.ended \in BOOLEAN
          /\ p.paint \in Paints \cup {NoPaint}
          /\ p.colors \in Nat /\ p.chars \in Nat /\ p.bytes \in Nat
          /\ p.chars <= p.bytes /\ (p.chars = 0 <=> p.bytes = 0)
ASSUME MaxPiecesAssumption == MaxPieces \in Nat

VARIABLES
    text,       \* the pieces so far
    parsed      \* what Parse has made of them

miniVars == <<text, parsed>>

Plain == [color |-> White, bold |-> FALSE]
NoText == [kind |-> "nil", style |-> Plain, parts |-> <<>>]
Blank == [kind |-> "blank", style |-> Plain, parts |-> <<>>]
Content(style) == [kind |-> "content", style |-> style, parts |-> <<>>]

-----------------------------------------------------------------------------
(* Gradient: for each character the two neighbouring colours it lies       *)
(* between and how far, in parts of the length of the content in bytes     *)
(* (exactly: the code's floats may round that down by a hair).             *)

LerpColor(id, bytes, colors) ==
    [from |-> (id * (colors - 1)) \div bytes,
     to   |-> (id * (colors - 1)) \div bytes + 1,
     part |-> (id * (colors - 1)) % bytes]

\* The colours are indexed from 0; with fewer than two the second index, or
\* both, are out of range.
GradientPanics(p) ==
    p.chars > 0 /\ (p.colors = 0 \/ \E id \in 0..p.chars - 1 : LerpColor(id, p.bytes, p.colors).to >= p.colors)

\* Faulty variant: the characters are counted from one.
GradientFromOne(p) == [i \in 1..p.chars |-> LerpColor(i, p.bytes, p.colors)]

Gradient(p) == [i \in 1..p.chars |-> LerpColor(i - 1, p.bytes, p.colors)]

-----------------------------------------------------------------------------
\* ParseColor and FromName: a name is one of the colours or an error.
Known(paint) == paint # NoPaint

\* The style a piece gives the top of the stack.
Styled(p, style) ==
    IF p.tag = "color" /\ Known(p.paint) THEN [style EXCEPT !.color = p.paint]
    ELSE IF p.tag = "bold" THEN [style EXCEPT !.bold = TRUE] ELSE style

\* An unknown colour makes a nil component; what follows another tag, or one
\* that closes, is not shown.
Component(p, style) ==
    IF p.tag = "color" /\ ~Known(p.paint) THEN NoText
    ELSE IF p.tag \in {"color", "bold"} THEN Content(style)
    ELSE IF p.tag = "gradient" /\ ~Known(p.paint) THEN NoText
    ELSE IF p.tag = "gradient" THEN [kind |-> "gradient", style |-> style, parts |-> Gradient(p)]
    ELSE Blank

Panics(p, stack) ==
    \/ stack = <<>>
    \/ ~p.ended
    \/ p.tag = "color" /\ p.colors = 0
    \/ p.tag = "gradient" /\ Known(p.paint) /\ GradientPanics(p)

\* Faulty variant: a tag begins with the plain style.
PushedPlain(stack, p) == IF p.tag = "close" THEN Front(stack) ELSE Append(stack, Plain)

\* A tag that closes drops the top, another copies it.
Pushed(stack, p) == IF p.tag = "close" THEN Front(stack) ELSE Append(stack, Last(stack))

\* Faulty variant: the last style is never dropped.
ParsePieceCarefully(out, p) ==
    LET stack == IF p.tag = "close" /\ Len(out.styles) = 1 THEN out.styles ELSE Pushed(out.styles, p)
        style == Styled(p, Last(stack))
    IN IF out.panicked THEN out
       ELSE IF Panics(p, stack) THEN [out EXCEPT !.panicked = TRUE]
       ELSE [out EXCEPT !.styles = Append(Front(stack), style),
                        !.shown = Append(@, Component(p, style))]

\* One turn of the loop of Parse.
ParsePiece(out, p) ==
    LET stack == Pushed(out.styles, p)
        style == Styled(p, Last(stack))
    IN IF out.panicked THEN out
       ELSE IF Panics(p, stack) THEN [out EXCEPT !.panicked = TRUE]
       ELSE [out EXCEPT !.styles = Append(Front(stack), style),
                        !.shown = Append(@, Component(p, style))]

\* The stack, the components made, and whether the loop panicked.
Begun == [styles |-> <<Plain>>, shown |-> <<>>, panicked |-> FALSE]
Parse(pieces) ==
    LET out[i \in 0..Len(pieces)] == IF i = 0 THEN Begun ELSE ParsePiece(out[i - 1], pieces[i])
    IN out[Len(pieces)]

-----------------------------------------------------------------------------
\* Every string, piece by piece.
Piece(p) ==
    /\ ~parsed.panicked /\ Len(text) < MaxPieces
    /\ text' = Append(text, p)
    /\ parsed' = ParsePiece(parsed, p)

ParseInit == text = <<>> /\ parsed = Begun
ParseNext == \E p \in Pieces : Piece(p)
ParseSpec == ParseInit /\ [][ParseNext]_miniVars

-----------------------------------------------------------------------------
(* Properties.                                                             *)

Opens(i) == text[i].tag # "close"
Balance(i, j) == Cardinality({k \in i..j : Opens(k)}) + 1 > Cardinality({k \in i..j : ~Opens(k)})

\* The tag of piece i is open at piece j: none of the pieces between closes it.
OpenAt(i, j) == Opens(i) /\ \A k \in i + 1..j : Balance(i + 1, k)
OpenTags(j, tags) == {i \in 1..j : text[i].tag \in tags /\ OpenAt(i, j)}

StyleAt(j) ==
    LET colored == {i \in OpenTags(j, {"color"}) : text[i].paint # NoPaint} IN
    [color |-> IF colored = {} THEN White
               ELSE text[CHOOSE i \in colored : \A k \in colored : k <= i].paint,
     bold  |-> OpenTags(j, {"bold"}) # {}]

\* What is shown has the style of the tags that are open where it stands, as
\* one reads them in the string: the innermost colour, and bold if one of them
\* is; a colour nobody knows is a tag like any other.
StyleOfOpenTags ==
    \A j \in DOMAIN parsed.shown :
        parsed.shown[j].kind \in {"content", "gradient"} => parsed.shown[j].style = StyleAt(j)

\* Parse panics on the first piece that closes a tag nobody opened, has no ">"
\* (a text without tags among them), names no colour where a colour tag has
\* one, or is a gradient of fewer than two colours over some text, and on
\* nothing else.
Unreadable(j) ==
    \/ ~text[j].ended
    \/ ~Balance(1, j)
    \/ text[j].tag = "color" /\ text[j].colors = 0
    \/ text[j].tag = "gradient" /\ text[j].paint # NoPaint /\ text[j].colors < 2 /\ text[j].chars > 0

PanicsOnUnreadable ==
    parsed.panicked <=> \E j \in DOMAIN text : Unreadable(j)

\* A gradient starts at its first colour, never goes back, and stays between
\* two of its colours, whatever the characters' length in bytes.
GradientsRun ==
    \A j \in DOMAIN parsed.shown : parsed.shown[j].kind = "gradient" =>
        LET parts == parsed.shown[j].parts IN
        /\ parts # <<>> => parts[1].from = 0 /\ parts[1].part = 0
        /\ \A i \in DOMAIN parts : parts[i].to < text[j].colors /\ parts[i].part < text[j].bytes
        /\ \A i, k \in DOMAIN parts : i < k =>
              parts[i].from * text[j].bytes + parts[i].part <= parts[k].from * text[j].bytes + parts[k].part
=============================================================================
