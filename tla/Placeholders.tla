---------------------------- MODULE Placeholders ----------------------------
(***************************************************************************)
(* Where the placeholders of a page are, for an HTML parser and for the    *)
(* renderer.  A page is a sequence of pieces: the delimiters that decide a *)
(* place, section tags and placeholders.  Other text decides nothing and   *)
(* is left out, and so is what the escapes do to a value.                  *)
(***************************************************************************)
EXTENDS Naturals, Sequences, FiniteSetsExt

\* "lt" and "gt" stand alone; "script" is a whole <script> tag, "endscript" is
\* </script>; "if", "unless" and "end" are {{#name}}, {{^name}} and {{/name}};
\* "slot" is a placeholder.  A filled placeholder has the name of its escape for
\* a kind, and an escape that of the place it is for.
Escapes == {"js", "attr", "text"}
TemplateKinds == {"lt", "gt", "script", "endscript", "if", "unless", "end", "slot"}

----------------------------------------------------------------------------
(* The parser *)

\* Where it is after a piece.
After(at, kind) ==
    CASE at = "text" /\ kind = "lt" -> "attr"
      [] at = "text" /\ kind = "script" -> "js"
      [] at = "attr" /\ kind = "gt" -> "text"
      [] at = "js" /\ kind = "endscript" -> "text"
      [] OTHER -> at

\* Where it is before each piece, and at the end.
Places(t) ==
    LET place[i \in 1 .. Len(t) + 1] ==
          IF i = 1 THEN "text" ELSE After(place[i - 1], t[i - 1].kind)
    IN place

\* Attribute values hold no delimiter, and no script ends outside of one.
Legal(t) ==
    LET place == Places(t)
    IN \A i \in DOMAIN t :
         /\ place[i] = "attr" => t[i].kind \notin {"lt", "script", "endscript"}
         /\ place[i] = "text" => t[i].kind # "endscript"

\* Every tag and script is closed.
WellFormed(t) == Legal(t) /\ Places(t)[Len(t) + 1] = "text"

\* What was filled is escaped for the place at which the parser meets it.
EscapedInPlace(p) ==
    \A i \in DOMAIN p : p[i].kind \in Escapes => p[i].kind = Places(p)[i]

----------------------------------------------------------------------------
(* _context_at and the substitution of render *)

\* The code's span begins with the tag, so that a placeholder among the tag's own
\* attributes counts as being in the script.  Here the tag is one piece and has
\* no such placeholder, as in the repository's template, whose tags are bare.
InScript(t, i) ==
    /\ \E s \in 1 .. i : /\ t[s].kind = "script"
                         /\ \A k \in s .. i - 1 : t[k].kind # "endscript"
    /\ \E e \in i .. Len(t) : t[e].kind = "endscript"

Last(t, i, kinds) == Max({0} \cup {k \in 1 .. i - 1 : t[k].kind \in kinds})

Context(t, i) ==
    IF InScript(t, i) THEN "js"
    ELSE IF Last(t, i, {"lt", "script", "endscript"}) > Last(t, i, {"gt", "script", "endscript"})
    THEN "attr" ELSE "text"

\* One substitution; a placeholder that has no value stays as it is.
Fill(body, known) ==
    [i \in DOMAIN body |->
       IF body[i].kind = "slot" /\ body[i].name \in known
       THEN [body[i] EXCEPT !.kind = Context(body, i)] ELSE body[i]]
=============================================================================
