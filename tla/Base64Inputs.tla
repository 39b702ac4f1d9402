---------------------------- MODULE Base64Inputs ----------------------------
(***************************************************************************)
(* The calls of the codec of Base64, one step per iteration of a loop: an  *)
(* input is encoded by encode_base64url and its text decoded again, or is  *)
(* decoded as it stands.  A byte is chosen when the encoder reads it.      *)
(***************************************************************************)
EXTENDS Base64

CONSTANTS
    Bytes,      \* the bytes inputs are made of
    MaxLength   \* bound: the length of an input

ASSUME InputsAssumption == Bytes \subseteq Byte /\ MaxLength \in Nat

VARIABLES
    data,       \* the input
    enc,        \* the local variables of encode_base64url
    text,       \* the argument of decode_base64
    encoded,    \* it is what encode_base64url returned
    dec,        \* the local variables of decode_base64
    next,       \* the character of text that its loop reads next
    pc          \* "encoding", "decoding", "decoded"

codecVars == <<data, enc, text, encoded, dec, next, pc>>

CodecInit ==
    /\ data = <<>> /\ enc = EncodeStart
    /\ text = <<>> /\ encoded = FALSE /\ dec = DecodeStart(0) /\ next = 1
    /\ pc = "encoding"

EncodeByte ==
    /\ pc = "encoding" /\ Len(data) < MaxLength
    /\ \E b \in Bytes :
          /\ data' = Append(data, b)
          /\ enc' = EncodeStep(Base64UrlChars, Base64UrlChars, enc, b)
    /\ UNCHANGED <<text, encoded, dec, next, pc>>

\* decode_base64 is called: nothing to do when no byte is complete.
Call(chars) ==
    /\ text' = chars
    /\ dec' = DecodeStart(Len(chars))
    /\ pc' = IF decode_char_count(Len(chars)) = 0 THEN "decoded" ELSE "decoding"

DecodeEncoded ==
    /\ pc = "encoding"
    /\ Call(EncodeFlush(Base64UrlChars, enc, Len(data)))
    /\ encoded' = TRUE
    /\ UNCHANGED <<data, enc, next>>

DecodeGiven ==
    /\ pc = "encoding"
    /\ Call(data)
    /\ UNCHANGED <<data, enc, encoded, next>>

DecodeChar ==
    /\ pc = "decoding" /\ next <= Len(text)
    /\ dec' = DecodeStep(Base64Values, dec, text[next])
    /\ next' = next + 1
    /\ pc' = IF dec'.valid THEN pc ELSE "decoded"
    /\ UNCHANGED <<data, enc, text, encoded>>

DecodeReturn ==
    /\ pc = "decoding" /\ next > Len(text)
    /\ dec' = [dec EXCEPT !.out = DecodeFinish(dec)]
    /\ pc' = "decoded"
    /\ UNCHANGED <<data, enc, text, encoded, next>>

CodecNext == EncodeByte \/ DecodeEncoded \/ DecodeGiven \/ DecodeChar \/ DecodeReturn

CodecSpec == CodecInit /\ [][CodecNext]_codecVars

\* What the call of decode_base64 returns.
Returned ==
    IF dec.valid THEN Some(Contents(dec.out, decode_char_count(Len(text)))) ELSE NullOpt

-----------------------------------------------------------------------------
(* Properties *)

\* decode_base64 and decode_base64url are defined on the texts of their
\* alphabet (and on any text of at most one character) and put the sextets'
\* bits side by side.  A text of encode_base64, with its other alphabet and
\* its padding, they read as the same bytes or not at all.  The loops are
\* those of the calls that Snowflake makes.
DecodeIsBitSlicing ==
    pc = "decoded" =>
        /\ Returned = IF Len(text) <= 1 THEN Some(<<>>)
                      ELSE IF IsText(text) THEN Some(RefDecode(text))
                      ELSE NullOpt
        /\ Returned = decode_base64(text) /\ Returned = decode_base64url(text)
        /\ encoded => text = encode_base64url(data).value
        /\ decode_base64(encode_base64(data).value) \in {Some(data), NullOpt}

\* decode_base64 undoes encode_base64url, although they are not declared as
\* a pair: as_json writes ids with one, from_json_string reads them with
\* the other.
IdCodecRoundTrip == encoded /\ pc = "decoded" => Returned = Some(data)

\* No iteration writes past the terminator of the decoder's string, and
\* decoding what encode_base64url wrote leaves it zero.
TerminatorPreserved ==
    LET n == decode_char_count(Len(text))
    IN  /\ dec.out_idx \in 0..n
        /\ encoded /\ pc = "decoded" => dec.out[n] = 0
=============================================================================
