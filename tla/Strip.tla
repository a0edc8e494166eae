------------------------------- MODULE Strip -------------------------------
(***************************************************************************)
(* `0c -s': a copy of the file without its verification blocks (strip,     *)
(* isvblock, skipvblock in src/src/main.c).                                *)
(*                                                                         *)
(* A file is a sequence of characters, of which matter: "~", "[", "]",     *)
(* white space, and the byte 255, which is EOF once fgetc's result is in a *)
(* char (as it is on the machines where a char is signed).                 *)
(***************************************************************************)
EXTENDS Naturals, Integers, Sequences, FiniteSets

CONSTANT MaxOut     \* characters of the output that are kept

ASSUME StripAssumption == MaxOut \in Nat

EOF == "EOF"

Characters == {"~", "[", "]", "ws", "c", EOF}     \* "c": all others

VARIABLES
    file,       \* the input
    pos,        \* characters consumed
    depth,      \* skipvblock's count, or -1 outside of a block
    out,        \* the output
    copying     \* whether strip is running

strip_vars == <<file, pos, depth, out, copying>>

(* fgetc at position p, and where it leaves the file. *)
CharAt(p) == IF p < Len(file) THEN file[p + 1] ELSE EOF
After(p)  == IF p < Len(file) THEN p + 1 ELSE p

(* The first position from p on whose character is no white space. *)
skipws(p) ==
    CHOOSE q \in p .. Len(file) :
        /\ q = Len(file) \/ file[q + 1] # "ws"
        /\ \A r \in p .. q - 1 : file[r + 1] = "ws"

Emit(c) == out' = IF Len(out) < MaxOut THEN Append(out, c) ELSE out

(* Mutant: the file is set back to the `~' itself. *)
NoBlockAt_before(p) == p - 1

(* Where the file is left when the `~' before p begins no block. *)
NoBlockAt(p) == IF CharAt(skipws(p)) = EOF THEN After(skipws(p)) - 1 ELSE p

strip_char ==
    /\ copying /\ depth = -1
    /\ CharAt(pos) \notin {"~", EOF}
    /\ Emit(CharAt(pos))
    /\ pos' = After(pos)
    /\ UNCHANGED <<file, depth, copying>>

isvblock ==
    /\ copying /\ depth = -1
    /\ CharAt(pos) = "~"
    /\ IF CharAt(skipws(pos + 1)) = "["
       THEN /\ pos' = skipws(pos + 1) + 1
            /\ depth' = 0
            /\ UNCHANGED out
       ELSE /\ pos' = NoBlockAt(pos + 1)
            /\ Emit("~")
            /\ UNCHANGED depth
    /\ UNCHANGED <<file, copying>>

(* Mutant: the first closing bracket ends the block. *)
Depth_flat(c) == IF c = "]" THEN -1 ELSE depth

(* The count after a character of a block; at the end of the file skipvblock  *)
(* goes on reading for ever.                                                  *)
Depth(c) ==
    CASE c = "[" -> depth + 1
      [] c = "]" -> depth - 1
      [] OTHER   -> depth

skipvblock ==
    /\ copying /\ depth >= 0
    /\ pos' = After(pos)
    /\ depth' = Depth(CharAt(pos))
    /\ UNCHANGED <<file, out, copying>>

strip_ends ==
    /\ copying /\ depth = -1
    /\ CharAt(pos) = EOF
    /\ copying' = FALSE
    /\ UNCHANGED <<file, pos, depth, out>>

strip == strip_char \/ isvblock \/ skipvblock \/ strip_ends

-----------------------------------------------------------------------------
(* What stripping means, said of the file as a whole. *)

Opens(a, o) ==
    /\ file[a] = "~" /\ o > a /\ file[o] = "["
    /\ \A k \in a + 1 .. o - 1 : file[k] = "ws"

Brackets(c, o, k) == Cardinality({j \in o .. k : file[j] = c})

(* The bracket at k closes the one at o. *)
Closes(o, k) ==
    /\ k > o
    /\ Brackets("[", o, k) = Brackets("]", o, k)
    /\ \A j \in o .. k - 1 : Brackets("[", o, j) # Brackets("]", o, j)

Positions == DOMAIN file

Blocks == {b \in Positions \X Positions :
              \E o \in b[1] .. b[2] : Opens(b[1], o) /\ Closes(o, b[2])}

(* All blocks are closed, nothing is taken for the end of the file, and a  *)
(* `~' is followed by something.                                           *)
WellFormed ==
    /\ \A k \in Positions : file[k] # EOF
    /\ \A a, o \in Positions : Opens(a, o) => \E k \in Positions : Closes(o, k)
    /\ \A a \in Positions : file[a] = "~" => \E k \in Positions : k > a /\ file[k] # "ws"

Kept == {k \in Positions : \A b \in Blocks : k \notin b[1] .. b[2]}

Before(k) == Cardinality({j \in Kept : j < k})

(* The output of a well-formed file, when strip has ended, is what stands  *)
(* outside of its blocks, nested ones included, in its order (strip in     *)
(* main.c).                                                                *)
StrippedExactly ==
    ~copying /\ WellFormed =>
        /\ Len(out) = Cardinality(Kept)
        /\ \A k \in Kept : out[Before(k) + 1] = file[k]
=============================================================================
