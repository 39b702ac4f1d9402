------------------------------ MODULE MCBase64 ------------------------------
(***************************************************************************)
(* Inputs for TLC: bytes whose sextets include 0, 62 and 63, characters    *)
(* of the alphabet among them ('A', '_', 'z') and one outside it ('=').    *)
(***************************************************************************)
EXTENDS Base64Inputs

SampleBytes == {0, 61, 65, 95, 122, 251, 255}
=============================================================================
