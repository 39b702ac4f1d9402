----------------------------- MODULE Snowflake -----------------------------
(***************************************************************************)
(* src/common/snowflake.h and snowflake.cpp: the 128-bit identifiers of    *)
(* messages, two unsigned words, and their conversion from and to JSON.    *)
(*                                                                         *)
(* A JSON value is a pair <<type, value>>, type being the tag that         *)
(* nlohmann::json::type() returns.                                         *)
(***************************************************************************)
EXTENDS Base64

CONSTANTS
    WordBytes,      \* sizeof(uint64_t): 8 in the code, smaller in a run
    random_device,  \* the seeds std::random_device() may return
    mt19937_64      \* the first two words a generator gives for a seed

\* 256 ^ n.
Power256[n \in 0..WordBytes] == IF n = 0 THEN 1 ELSE 256 * Power256[n - 1]

Word == 0 .. (Power256[WordBytes] - 1)

ASSUME WordAssumption == WordBytes \in Nat \ {0}
ASSUME GeneratorAssumption ==
    /\ random_device # {}
    /\ mt19937_64 \in [random_device -> Word \X Word]

Json(type, value) == <<type, value>>
type_of(j) == j[1]
get(j) == j[2]
is_number(j) == type_of(j) \in {"number_unsigned", "number_integer", "number_float"}

-----------------------------------------------------------------------------

SnowflakeSet == [m_most_sig : Word, m_least_sig : Word]

MakeSnowflake(most, least) == [m_most_sig |-> most, m_least_sig |-> least]

invalid_snowflake == MakeSnowflake(0, 0)

\* A mutant: the zero id passes for a valid one.
AlwaysValid(id) == TRUE

is_valid(id) == id.m_most_sig # 0 \/ id.m_least_sig # 0

\* generate() and generate_64() seed a new generator on every call; what
\* they return is a function of the seed.
generate(seed) == MakeSnowflake(mt19937_64[seed][1], mt19937_64[seed][2])
generate_64(seed) == MakeSnowflake(mt19937_64[seed][1], 0)

-----------------------------------------------------------------------------
(* The object representation: the words in order, each little-endian.      *)

\* What is left of w when its n low bytes are taken off.
Shifted(w) ==
    LET after[n \in 0..WordBytes] == IF n = 0 THEN w ELSE after[n - 1] \div 256
    IN  after

WordToBytes(w) == [i \in 1..WordBytes |-> Shifted(w)[i - 1] % 256]

\* The word of the n last bytes of b.
HighBytes(b) ==
    LET last[n \in 0..WordBytes] ==
            IF n = 0 THEN 0 ELSE b[WordBytes - n + 1] + 256 * last[n - 1]
    IN  last

BytesToWord(b) == HighBytes(b)[WordBytes]

SnowflakeToBytes(id) == WordToBytes(id.m_most_sig) \o WordToBytes(id.m_least_sig)

BytesToSnowflake(b) ==
    MakeSnowflake(BytesToWord(SubSeq(b, 1, WordBytes)),
                  BytesToWord(SubSeq(b, WordBytes + 1, 2 * WordBytes)))

-----------------------------------------------------------------------------
(* JSON *)

\* A mutant: 64-bit ids are written as text too.
AlwaysText(id) == Json("string", encode_base64url(SnowflakeToBytes(id)).value)

as_json_id(id) ==
    IF id.m_most_sig # 0 /\ id.m_least_sig = 0
    THEN Json("number_unsigned", id.m_most_sig)
    ELSE Json("string", encode_base64url(SnowflakeToBytes(id)).value)

\* The element test is inverted: the first number ends the loop with
\* nullopt, and get<uint64_t>() of anything else aborts the process.
from_json_array(array) ==
    IF Len(array) # 2 \/ is_number(array[1]) THEN NullOpt ELSE Aborted

HoldsId(decoded) == decoded.outcome = "value" /\ Len(decoded.value) = 2 * WordBytes

IdOf(decoded) == IF HoldsId(decoded) THEN Some(BytesToSnowflake(decoded.value)) ELSE NullOpt

\* A text that does not decode to 16 bytes is decoded a second time.
IdOfEither(decoded) ==
    IF decoded.outcome = "value" /\ ~HoldsId(decoded) THEN IdOf(decode_base64(decoded.value))
    ELSE IdOf(decoded)

from_json_string(string) == IdOfEither(decode_base64(string))

\* int64_t converted to uint64_t.
from_json_number(n) == Some(MakeSnowflake(n % Power256[WordBytes], 0))

from_json_id(j) ==
    CASE type_of(j) = "array"  -> from_json_array(get(j))
      [] type_of(j) = "string" -> from_json_string(get(j))
      [] type_of(j) \in {"number_unsigned", "number_integer"} -> from_json_number(get(j))
      [] OTHER -> NullOpt
=============================================================================
