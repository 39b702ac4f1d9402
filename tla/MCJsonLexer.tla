---------------------------- MODULE MCJsonLexer ----------------------------
(* Texts for TLC. *)
EXTENDS JsonTokens

\* Blanks, comments, structure, one literal, a byte order mark, NUL.
TextBytes == {32, 10, 47, 42, 91, 44, 116, 114, 117, 101, 0, 239, 187, 191}
\* 0 1 8 - + . e, a newline, a comma.
NumberBytes == {48, 49, 56, 45, 43, 46, 101, 10, 44}
\* Both ends of every range of UTF-8, a quote, an escape, a control character.
Utf8Bytes == {34, 65, 92, 110, 31, 127, 128, 143, 144, 159, 160, 191, 193, 194, 223, 224,
              225, 236, 237, 238, 239, 240, 241, 243, 244, 245, 255}
ShortTexts == [i \in 1..6 |-> TextBytes]
Numbers == [i \in 1..6 |-> NumberBytes]
Utf8Strings == <<{34}>> \o [i \in 1..5 |-> Utf8Bytes]
\* Digits around the surrogates and the lengths of UTF-8, and one byte that is none.
EscapedStrings ==
    <<{34}, {92}, {117}, {48, 68, 101, 71}, {48, 55, 56, 66, 67, 70}, {48, 56, 102, 71}, {48, 102},
      {34, 92}, {117}, {48, 68, 100}, {48, 66, 67, 70}, {48, 70}, {48, 70, 71}, {34}>>

AllShapes == {ShortTexts, Numbers, Utf8Strings, EscapedStrings}
=============================================================================
