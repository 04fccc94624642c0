---------------------------- MODULE MCTokenLife ----------------------------
(* Two IPv4 addresses, so that a path and its reverse differ, and one IPv6 *)
(* address; lengths on both sides of each boundary of the parser.          *)
EXTENDS TokenLife

MCTrunc80AES(k, m) == <<k, m.nonce, m.src, m.dst>>
MCSelectors == {0, 1, 2}
MCDatagramLens == {0, 1, 5, 6, 20, 21, 25, 26}
MCDcidLens == {0, 19, 20, 21}

CONSTANTS a1, a2, n1
\* A tag no key produces, and the tag of a token with another nonce.
MCForgedTags == {<<"garbage", n1, a1, a2>>, MCTrunc80AES("F_AB", [nonce |-> n1, src |-> a1, dst |-> a2])}

=============================================================================
