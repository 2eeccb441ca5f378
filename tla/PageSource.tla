----------------------------- MODULE PageSource -----------------------------
(***************************************************************************)
(* What the physical memory manager promises its one kind of caller, the   *)
(* pager of a heap: a grant is a run of consecutive frames that nobody     *)
(* else has, it stays with its holder until it is returned, and the frames *)
(* of a returned grant can be granted again, in other shapes.  How the     *)
(* frames are kept in between is not visible here (see Buddy).             *)
(***************************************************************************)
EXTENDS Integers

CONSTANT Frame      \* the frame numbers

VARIABLES usable,   \* the frames the boot loader has handed over so far
          held      \* the grants in use, [base, n]

Run(base, n) == base .. base + n - 1

Avail == usable \ UNION {Run(g.base, g.n) : g \in held}

Init == usable = {} /\ held = {}

HandOver == \E base, n \in Frame :
                /\ Run(base, n) \subseteq Frame \ usable
                /\ usable' = usable \cup Run(base, n)
                /\ UNCHANGED held

Grant == \E base, n \in Frame :
             /\ n > 0
             /\ Run(base, n) \subseteq Avail
             /\ held' = held \cup {[base |-> base, n |-> n]}
             /\ UNCHANGED usable

GiveBack == \E g \in held : held' = held \ {g} /\ UNCHANGED usable

Next == HandOver \/ Grant \/ GiveBack

Spec == Init /\ [][Next]_<<usable, held>>
=============================================================================
