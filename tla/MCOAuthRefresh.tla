--------------------------- MODULE MCOAuthRefresh ---------------------------
(* Instances of OAuthRefresh for TLC: two server processes with a background *)
(* loop each, and a request in the first one.                                *)
EXTENDS OAuthRefresh, TLC

CONSTANTS i1, i2, b1, b2, r1

TwoInstances == {i1, i2}
Loops == {b1, b2}
OneRequest == {r1}
Home == (b1 :> i1) @@ (b2 :> i2) @@ (r1 :> i1)

Exclusive == {{"crash", "reused"}, {"write", "net"}, {"reread"}, {"reread", "recover"},
              {"redis", "reused"}, {"cache"}, {"unauthorized"}}
SlowCalls == {{"slow"}}
=============================================================================
