--------------------------- MODULE MCXPathParser ----------------------------
(***************************************************************************)
(* The texts of queries, and every command up to MaxLength symbols, from   *)
(* the start or inside the first filter of a level, so that comparisons    *)
(* come to an end.  Two runs of letters or of digits next to each other    *)
(* would be one: they are left out.                                        *)
(***************************************************************************)
EXTENDS XPathQueries

CONSTANTS Marks, MaxLength

Symbols == Marks \cup Numbers \cup OtherNumbers \cup Names

Adjacent(s, t) ==
    \/ s \in Names /\ t \in Names
    \/ {s, t} \subseteq Numbers \cup OtherNumbers

Texts ==
    {t \in UNION {[1..n -> Symbols] : n \in 0..MaxLength} :
        \A i \in 2..Len(t) : ~Adjacent(t[i - 1], t[i])}

InFilter == {<<n, "[">> \o t : n \in Numbers, t \in Texts}

Commands == [op : {"?", "x"}, text : Texts \cup InFilter]

AnyInit == query = NoQuery /\ InitFor(Commands)

AnySpec ==
    /\ QueryInit(Queries) \/ AnyInit
    /\ [][QueryNext]_<<vars, query>>
    /\ WF_<<vars, query>>(QueryNext)
=============================================================================
