----------------------------- MODULE PixelHash ------------------------------
(***************************************************************************)
(* calc_hash of src/src/luamain.c: cyrb64 over the pixels of an image and  *)
(* its sixteen hexadecimal digits.  Scripts compare the digits to see      *)
(* whether an image has changed.                                           *)
(*                                                                         *)
(* Two images are hashed side by side.  uint32_t is scaled to words of     *)
(* Width bits and the shifts with it; the factors and the start values     *)
(* keep their last Width bits.                                             *)
(***************************************************************************)
EXTENDS Integers, Sequences, Bitwise

CONSTANTS
  Width,     (* bits of a word: 32 in the code                             *)
  Far, Near, (* the shifts: 16 and 13 in the code                          *)
  Pixels,    (* words that occur as pixels                                 *)
  Length,    (* number of pixels of the images                             *)
  Sizes      (* widths and heights that scripts pass                       *)

ASSUME PixelHashAssumption ==
  /\ Width \in Nat /\ Width > 0 /\ Width % 4 = 0
  /\ Far \in 1 .. Width - 1
  /\ Near \in 1 .. Width - 1
  /\ Pixels \subseteq 0 .. 2^Width - 1
  /\ Length \in Nat
  /\ Sizes \subseteq Int

VARIABLES
  src,      (* the pixels of each of the two images                        *)
  i,        (* the loop variable of cyrb64                                 *)
  h1, h2,   (* its two words, for each image                               *)
  dst,      (* the digits, for each image                                  *)
  pc

vars == <<src, i, h1, h2, dst, pc>>

Images == {"first", "second"}
Times(a, b) == (a * b) % 2^Width
Low(n) == n % 2^Width

(* Two images that differ in one pixel. *)
Differ(a, b) == \E k \in 1 .. Length :
  a[k] # b[k] /\ \A j \in (1 .. Length) \ {k} : a[j] = b[j]

Init ==
  /\ src \in [Images -> [1 .. Length -> Pixels]]
  /\ Differ(src["first"], src["second"])
  /\ i = 0
  /\ h1 = [x \in Images |-> Low(199 ^^ 158)]
  /\ h2 = [x \in Images |-> Low(87 ^^ 158)]
  /\ dst = [x \in Images |-> <<>>]
  /\ pc = "arguments"

(* lua_bridge_calc_hash: an image and its size, or an error. *)
ReadArguments ==
  /\ pc = "arguments"
  /\ \E hasImage \in BOOLEAN, w, h \in Sizes :
       IF hasImage /\ w > 0 /\ h > 0
       THEN w * h = Length /\ pc' = "loop"
       ELSE pc' = "error"
  /\ UNCHANGED <<src, i, h1, h2, dst>>

(* Mutant: the pixel is put in with "or", where bits that are set hide it.  *)
OrsPixel ==
  /\ pc = "loop"
  /\ i < Length
  /\ h1' = [x \in Images |-> Times(h1[x] | src[x][i + 1], 177)]
  /\ h2' = [x \in Images |-> Times(h2[x] | src[x][i + 1], 149)]
  /\ i' = i + 1
  /\ UNCHANGED <<src, dst, pc>>

(* The body of the loop of cyrb64. *)
AddPixel ==
  /\ pc = "loop"
  /\ i < Length
  /\ h1' = [x \in Images |-> Times(h1[x] ^^ src[x][i + 1], 177)]
  /\ h2' = [x \in Images |-> Times(h2[x] ^^ src[x][i + 1], 149)]
  /\ i' = i + 1
  /\ UNCHANGED <<src, dst, pc>>

Mixed(a, b) ==
  Times(a ^^ shiftR(a, Far), 107) ^^ Times(b ^^ shiftR(b, Near), 53)

(* The last two statements; the second uses the new h1. *)
Mix ==
  /\ pc = "loop"
  /\ i = Length
  /\ h1' = [x \in Images |-> Mixed(h1[x], h2[x])]
  /\ h2' = [x \in Images |-> Mixed(h2[x], h1'[x])]
  /\ pc' = "hex"
  /\ UNCHANGED <<src, i, dst>>

(* to_hex of h2 and h1, one digit a step, the last digit first. *)
ToHex ==
  /\ pc = "hex"
  /\ dst' = [x \in Images |-> <<h1[x] % 16>> \o dst[x]]
  /\ h1' = [x \in Images |-> Low((h1[x] + h2[x] * 2^Width) \div 16)]
  /\ h2' = [x \in Images |-> h2[x] \div 16]
  /\ pc' = IF Len(dst'["first"]) = Width \div 2 THEN "done" ELSE "hex"
  /\ UNCHANGED <<src, i>>

Next == ReadArguments \/ AddPixel \/ Mix \/ ToHex

Spec == Init /\ [][Next]_vars

(* An image in which one pixel was changed has another hash: every step of  *)
(* cyrb64 can be undone, for the factors are odd and a word that is added   *)
(* to itself is shifted first, and to_hex leaves no bit out.                *)
OnePixelShows == pc = "done" => dst["first"] # dst["second"]
=============================================================================
