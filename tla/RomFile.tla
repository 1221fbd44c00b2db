------------------------------ MODULE RomFile ------------------------------
(***************************************************************************)
(* A file of instruction words as text, and the two readers of it: the     *)
(* fscanf loop of support/cli.cpp and tests/test_frontend.cpp, and         *)
(* LoadASCIIHex of support/gui.go.                                         *)
(*                                                                         *)
(* A file is a sequence of lines, a line a sequence of tokens: a run of    *)
(* hex digits, a blank, an underscore, a '#', or any other character.      *)
(* Neither a run of more than 16 digits nor a sign or prefix before one,   *)
(* which only fscanf would take, is considered.                            *)
(***************************************************************************)
EXTENDS Words, SequencesExt

Hex(n, val) == [kind |-> "hex", digits |-> n, val |-> val]
Mark(kind)  == [kind |-> kind, digits |-> 1, val |-> {}]

blank      == Mark("blank")
underscore == Mark("underscore")
comment    == Mark("comment")
other      == Mark("other")

-----------------------------------------------------------------------------
(* fscanf(romfd, "%x[\n]", &read)                                          *)

(* What a FILE* that has just been opened has to offer: a newline is white *)
(* space to fscanf, like any other.                                        *)
Characters(file) == FlattenSeq([k \in DOMAIN file |-> Append(file[k], blank)])

(* %x skips white space.  What follows it in the format, a bracket, is in  *)
(* no file and matches nothing, which does not change fscanf's result.     *)
SkipSpace(tokens) ==
  LET k == SelectInSeq(tokens, LAMBDA token : token.kind # "blank")
  IN  IF k = 0 THEN << >> ELSE SubSeq(tokens, k, Len(tokens))

Converts(tokens) ==
  LET t == SkipSpace(tokens) IN t # << >> /\ Head(t).kind = "hex"

(* The converted value, cut to the uint32_t it is stored in, and the rest. *)
Converted(tokens) == Slice(Head(SkipSpace(tokens)).val, 31, 0)
Unread(tokens)    == Tail(SkipSpace(tokens))

-----------------------------------------------------------------------------
(* LoadASCIIHex                                                            *)

WithoutComment(line) ==
  LET k == SelectInSeq(line, LAMBDA token : token.kind = "comment")
  IN  IF k = 0 THEN line ELSE SubSeq(line, 1, k - 1)

TrimSpace(line) ==
  LET solid == { k \in DOMAIN line : line[k].kind # "blank" }
  IN  IF solid = {} THEN << >> ELSE SubSeq(line, Min(solid), Max(solid))

Content(line) ==
  TrimSpace(WithoutComment(SelectSeq(line, LAMBDA token : token.kind # "underscore")))

Length(line) == FoldLeft(LAMBDA n, token : n + token.digits, 0, line)

(* len(line) is 8 and strconv.ParseUint takes all of it.                   *)
IsWord(line) ==
  /\ Length(line) = 8
  /\ \A k \in DOMAIN line : line[k].kind = "hex"

Value(line) == FoldLeft(LAMBDA v, token : Cat(v, 4 * token.digits, token.val), {}, line)

Contents(file) == SelectSeq([k \in DOMAIN file |-> Content(file[k])], LAMBDA s : s # << >>)

Accepts(file) == \A k \in DOMAIN Contents(file) : IsWord(Contents(file)[k])

LoadASCIIHex(file) == [k \in DOMAIN Contents(file) |-> Value(Contents(file)[k])]

(* An instruction memory of n words that is written from the words of a    *)
(* file: no word beyond its end, and zeroes in the rest of it.             *)
Image(n, words) ==
  [addr \in 0 .. n - 1 |-> IF addr < Len(words) THEN words[addr + 1] ELSE {}]

=============================================================================
