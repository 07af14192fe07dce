----------------------------- MODULE MCRenderer -----------------------------
(* Every acceptable template of up to MaxPieces pieces, with one known and   *)
(* one unknown flag, one placeholder that has a value and one that has none. *)
EXTENDS Renderer, FiniteSets

CONSTANT MaxPieces

Pieces ==
    {[kind |-> k, name |-> "-"] : k \in {"lt", "gt", "script", "endscript"}}
    \cup {[kind |-> k, name |-> "video"] : k \in {"if", "unless", "end"}}
    \cup {[kind |-> k, name |-> "other"] : k \in {"if", "end"}}
    \cup {[kind |-> "slot", name |-> s] : s \in {"message", "typo"}}

\* What is open after t: sections, and a tag or a script in some branch.
Open(t) ==
    Cardinality(Enclosing(t, Len(t) + 1))
    + IF \E f \in FlagValues :
           LET left == Resolved(t, f) IN Places(left)[Len(left) + 1] # "text"
      THEN 1 ELSE 0

\* Grown piece by piece; what closes nothing, is misplaced or cannot be closed
\* in the pieces left ends a branch early.
Grown[n \in 0 .. MaxPieces] ==
    IF n = 0 THEN {<<>>}
    ELSE {t \in {Append(u, piece) : u \in Grown[n - 1], piece \in Pieces} :
            /\ t[n].kind = "end" =>
                 LET inside == Enclosing(t, n)
                 IN inside # {} /\ t[Max(inside)].name = t[n].name
            /\ \A f \in FlagValues : Legal(Resolved(t, f))
            /\ Open(t) <= MaxPieces - n}

MCTemplates == {t \in UNION {Grown[n] : n \in 1 .. MaxPieces} : Acceptable(t)}
=============================================================================
