--------------------------- MODULE MCControlPlane --------------------------
(* Small instances of the control plane. *)
EXTENDS ControlPlane, TLC

CONSTANTS c1, c2

\* Two developers nginx can name.
MCUsers == {<<"ann">>, <<"bob">>}
\* One it can name, one it cannot (the local part of a git e-mail such as
\* first+tag@example.com), and a blank name.
MCUsersBlank == {<<"ann">>, <<"first+tag">>, <<" ">>}
MCServices == {<<"api">>}

MCSafeSegments == {"ann", "bob", "api"}
MCBlankSegments == {" "}

ConnSymmetry == Permutations({c1, c2})
=============================================================================
