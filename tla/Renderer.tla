------------------------------- MODULE Renderer -------------------------------
(***************************************************************************)
(* TemplateRenderer: a template is loaded once and rendered per serve.     *)
(* First the sections of known flags are resolved, by a non-greedy regular *)
(* expression applied until nothing changes; then every placeholder is     *)
(* filled, escaped for the place this occurrence has in what is left.      *)
(***************************************************************************)
EXTENDS Placeholders, Naturals, Sequences, FiniteSetsExt

CONSTANTS
    Templates,      \* the templates a deployment may have
    Slots,          \* placeholders that have a value
    Flags           \* sections that have a flag

IsSection(piece) == piece.kind \in {"if", "unless"}

----------------------------------------------------------------------------
(* What the author of a template answers for *)

\* The sections a piece is in: opened before it and not closed yet.
Enclosing(t, i) ==
    {s \in 1 .. i - 1 : IsSection(t[s]) /\
        \A k \in s + 1 .. i - 1 : t[k] # [kind |-> "end", name |-> t[s].name]}

\* Tags nest, and no section is in one of its own name.
Nested(t) ==
    /\ Enclosing(t, Len(t) + 1) = {}
    /\ \A i \in DOMAIN t :
         LET inside == Enclosing(t, i)
         IN /\ IsSection(t[i]) => \A s \in inside : t[s].name # t[i].name
            /\ t[i].kind = "end" => inside # {} /\ t[Max(inside)].name = t[i].name

\* What becomes of a piece, by definition: a section whose flag is known is
\* kept or dropped with all it holds; one of an unknown flag stays as it is.
Resolves(t, s) ==
    t[s].name \in Flags /\ \A r \in Enclosing(t, s) : t[r].name \in Flags
Holds(t, s, flags) == (t[s].kind = "if") = flags[t[s].name]

IsKept(t, flags, i) ==
    LET own == IF IsSection(t[i]) THEN {i}
               ELSE IF t[i].kind = "end" THEN {Max(Enclosing(t, i))} ELSE {}
    IN /\ \A s \in own : ~Resolves(t, s)
       /\ \A s \in Enclosing(t, i) : Resolves(t, s) => Holds(t, s, flags)

Kept(t, flags) ==
    SelectSeq([i \in DOMAIN t |-> i], LAMBDA i : IsKept(t, flags, i))

Resolved(t, flags) ==
    LET kept == Kept(t, flags) IN [k \in DOMAIN kept |-> t[kept[k]]]

FlagValues == [Flags -> BOOLEAN]

Acceptable(t) == Nested(t) /\ \A flags \in FlagValues : WellFormed(Resolved(t, flags))

ASSUME TemplateAssumption == \A t \in Templates : Acceptable(t)

----------------------------------------------------------------------------
(* _apply_sections *)

Ends(t, i) == {j \in i + 1 .. Len(t) : t[j] = [kind |-> "end", name |-> t[i].name]}

\* One pass of the substitution: from the left, each section tag matches up to
\* the first closing tag of its name.
Pass(t, flags) ==
    LET from[i \in 1 .. Len(t) + 1] ==
          IF i > Len(t) THEN <<>>
          ELSE IF IsSection(t[i]) /\ Ends(t, i) # {}
          THEN LET j == Min(Ends(t, i))
                   put == IF t[i].name \notin Flags THEN SubSeq(t, i, j)
                          ELSE IF Holds(t, i, flags) THEN SubSeq(t, i + 1, j - 1)
                          ELSE <<>>
               IN put \o from[j + 1]
          ELSE <<t[i]>> \o from[i + 1]
    IN from[1]

\* Mutant: nothing is resolved before substitution; the tags are dropped.
ApplySectionsNever(t, flags) ==
    SelectSeq(t, LAMBDA piece : piece.kind \notin {"if", "unless", "end"})

\* Five passes; further ones would change nothing once one has not.
ApplySections(t, flags) ==
    LET pass[n \in 0 .. 5] == IF n = 0 THEN t ELSE Pass(pass[n - 1], flags)
    IN pass[5]

----------------------------------------------------------------------------
(* render *)

\* Mutant: the script spans of the template, not of what is left of it.
RenderCachedSpans(t, flags) ==
    LET body == ApplySections(t, flags)
    IN [i \in DOMAIN body |->
          IF body[i].kind = "slot" /\ body[i].name \in Slots
          THEN [body[i] EXCEPT !.kind = IF InScript(t, i) THEN "js"
                  ELSE IF Context(body, i) = "js" THEN "text" ELSE Context(body, i)]
          ELSE body[i]]

\* Mutant: a placeholder without a value is blanked like an empty one.
RenderBlanks(t, flags) ==
    LET body == ApplySections(t, flags)
    IN [i \in DOMAIN body |->
          IF body[i].kind = "slot" THEN [body[i] EXCEPT !.kind = Context(body, i)]
          ELSE body[i]]

Render(t, flags) == Fill(ApplySections(t, flags), Slots)

----------------------------------------------------------------------------
VARIABLES
    template,   \* the file, read when the instance starts
    flags,      \* of the last serve
    page        \* the answer to it: a set of at most one

vars == <<template, flags, page>>

Init ==
    /\ template \in Templates
    /\ flags \in FlagValues
    /\ page = {}

\* A serve: the media decides between the branches of the template.
Serve(media) ==
    /\ flags' = media
    /\ page' = {Render(template, media)}
    /\ UNCHANGED template

Next == \E media \in FlagValues : Serve(media)

Spec == Init /\ [][Next]_vars

----------------------------------------------------------------------------
(* Properties *)

\* "Escaping is per OCCURRENCE, not per placeholder": whatever sections went
\* before and around it, each value is escaped for the place at which the HTML
\* parser will meet it in the page that is sent.
EscapedForItsPlace == \A p \in page : EscapedInPlace(p)

\* "Placeholders in the discarded branch are never filled": rewriting with the
\* regular expression until nothing changes keeps exactly the pieces that are
\* in no dropped section, in their order, whatever is nested in what; and of
\* these exactly the placeholders that have a value are filled.
BranchesResolved ==
    \A p \in page :
        LET kept == Resolved(template, flags)
        IN /\ DOMAIN p = DOMAIN kept
           /\ \A k \in DOMAIN p :
                /\ p[k].name = kept[k].name
                /\ IF kept[k].kind = "slot" /\ kept[k].name \in Slots
                   THEN p[k].kind \in Escapes ELSE p[k].kind = kept[k].kind
=============================================================================
