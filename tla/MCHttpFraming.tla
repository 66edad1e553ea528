--------------------------- MODULE MCHttpFraming ---------------------------
(* Small messages, with every combination of their parts. *)
EXTENDS HttpFraming

Length(at, v) == [at |-> at, value |-> v]

\* No Content-Length, one, or two; 29 makes the end of the body wrap, and the
\* line that ends at 4 may be one of the body.
MCLengths ==
    {<<>>} \cup {<<Length(1, v)>> : v \in {0, 1, 2, 4, 29, Bad}}
           \cup {<<Length(4, 2)>>}
           \cup {<<Length(1, v), Length(2, w)>> : v \in {1, 2, Bad}, w \in {0, 2}}

Other(crlf, lf, lengths, size, utf8) ==
    [crlf |-> crlf, lf |-> lf, lengths |-> lengths, size |-> size, utf8 |-> utf8,
     accepted |-> TRUE, client |-> FALSE]
Posted(size, accepted) ==
    [crlf |-> 3, lf |-> 0, lengths |-> <<Length(1, size - 3)>>, size |-> size,
     utf8 |-> TRUE, accepted |-> accepted, client |-> TRUE]

\* Texts with no empty line, one, or one of each kind, and what the client builds.
MCMessages ==
    {Other(c, l, ls, s, TRUE) : c \in {0, 3, 5}, l \in {0, 3}, ls \in MCLengths, s \in {0, 4, 6, 9}}
    \cup {Other(3, 0, ls, 5, FALSE) : ls \in MCLengths}
    \cup {Posted(s, a) : s \in {4, 6, 7, 8, 9}, a \in BOOLEAN}
=============================================================================
