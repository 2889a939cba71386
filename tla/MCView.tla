------------------------------- MODULE MCView -------------------------------
(* Two cards of one model with the same by-id links, and a camera without  *)
(* links, on four nodes; the user may lack the rights to either model.     *)
EXTENDS View

CONSTANTS card, twin, camera, link, metaLink, model, other

MCNodes == 0..3
MCLinkOf == [c \in Cards |-> <<link, metaLink>>]
MCNameOf == [c \in Cards |-> IF c = camera THEN other ELSE model]

\* No hint, either link, a bare node, and texts that occur in the links only
\* and in the name of the model only.
MCHints ==
    {NoHint, [path |-> link, text |-> {link}], [path |-> metaLink, text |-> {metaLink}],
     [path |-> 2, text |-> {2}]} \cup
        {[path |-> Gone, text |-> t] : t \in {{link, metaLink}, {model}}}
=============================================================================
