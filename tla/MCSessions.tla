----------------------------- MODULE MCSessions ----------------------------
(* Small instances of Sessions. *)
EXTENDS Sessions

CONSTANTS u1, u2, u3, d1

MCUsers == {<<"ann">>, <<"bob">>}
MCServices == {<<"api">>, <<"web">>}
MCSafeSegments == {"ann", "bob", "api", "web"}
MCHealthChecked == {<<"ann", "api">>, <<"bob", "api">>}

AnnApi == [user |-> <<"ann">>, service |-> <<"api">>]
AnnWeb == [user |-> <<"ann">>, service |-> <<"web">>]
BobApi == [user |-> <<"bob">>, service |-> <<"api">>]

\* Ann starts web twice, which has no health check, and Bob api.
MCForWeb == [x \in {u1, u2, u3} |-> IF x = u2 THEN BobApi ELSE AnnWeb]

\* Ann starts api twice, Bob once, and Ann runs `ephemwork down api`.
MCForApi == [x \in {u1, u2, u3, d1} |-> IF x = u2 THEN BobApi ELSE AnnApi]
=============================================================================
