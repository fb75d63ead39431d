----------------------------- MODULE BlockTree ------------------------------
(***************************************************************************)
(* Blocks and chains.  A block hash commits to the whole history below it, *)
(* so a block is modelled as the path that leads to it from genesis: a     *)
(* sequence of branch labels.  Its height is the length of that path, its  *)
(* parent the path without its last step, and a chain is named by its tip. *)
(***************************************************************************)
EXTENDS Naturals, Sequences

CONSTANT Branches   \* labels telling competing blocks of one height apart

Block == Seq(Branches)
Genesis == << >>

\* The block at height h of the chain ending in b.
Anc(b, h) == SubSeq(b, 1, h)

\* Block a is on the chain ending in b.
IsAnc(a, b) == Len(a) <= Len(b) /\ a = SubSeq(b, 1, Len(a))

\* One of the two blocks is on the chain of the other.
Comparable(a, b) == IsAnc(a, b) \/ IsAnc(b, a)

Highest(S) == CHOOSE b \in S : \A c \in S : Len(c) <= Len(b)

\* Where the chains ending in a and b part.
CommonAnc(a, b) == Highest({c \in {Anc(a, h) : h \in 0..Len(a)} : IsAnc(c, b)})

\* u32 / BlockHeight subtraction saturates at zero.
SatSub(m, n) == IF m >= n THEN m - n ELSE 0
MaxOf(m, n) == IF m >= n THEN m ELSE n
MinOf(m, n) == IF m <= n THEN m ELSE n
=============================================================================
