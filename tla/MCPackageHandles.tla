--------------------------- MODULE MCPackageHandles ---------------------------
(* Instances of PackageHandles.  Chain: a imports b, which imports c.  b's name    *)
(* refers to c in its first content; in its second it does not, so that changes of *)
(* c are pruned; in its third it does not import c.  a and c only change bodies.   *)
(* LongChain: a imports b, b c and c d; the names of b and c refer to the next.    *)
EXTENDS PackageHandles, TLC

CONSTANTS a, b, c, d, n, c1, c2, c3

Chain == [p \in Pkg |-> [x \in Content \union {NoContent} |->
            IF x = NoContent \/ p = c \/ (p = b /\ x = c3) THEN {}
            ELSE IF p = a THEN {b} ELSE {c}]]
ChainRefs == [p \in Pkg |-> [x \in Content \union {NoContent} |->
            IF p = b /\ x = c1 THEN {<<n, <<c, n>>>>} ELSE {}]]
ChainWorlds == {w \in World : w[a] # c3 /\ w[c] # c3}

LongChain == [p \in Pkg |-> [x \in Content \union {NoContent} |->
                IF x = NoContent \/ p = d THEN {}
                ELSE IF p = a THEN {b} ELSE IF p = b THEN {c} ELSE {d}]]
LongChainRefs == [p \in Pkg |-> [x \in Content \union {NoContent} |->
                    IF x = NoContent THEN {}
                    ELSE {<<n, <<q, n>>>> : q \in LongChain[p][x] \ {b}}]]

FirstWorld == [p \in Pkg |-> c1]
OneWorld == {FirstWorld}
OneTwoOne == [s \in 0 .. MaxEdits |-> IF s = 1 THEN 2 ELSE 1]
Symmetric == Permutations(Thread)
=============================================================================
