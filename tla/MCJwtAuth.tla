----------------------------- MODULE MCJwtAuth ------------------------------
(***************************************************************************)
(* One configured caller; its tokens, and the same with one thing wrong    *)
(* each: the signer, the issuer, the algorithm, the audience, the          *)
(* lifetime, a claim that is missing, times that are strings of digits.    *)
(***************************************************************************)
EXTENDS JwtAuth

Good == [iss |-> "drive", key |-> "k1", alg |-> ALG, aud |-> "file-scanner", iat |-> 2, exp |-> 4,
         numeric |-> TRUE, htm |-> "POST", htu |-> <<"async">>, bh |-> "b1"]

MCTokens ==
    {Good, [Good EXCEPT !.htu = <<"scan", "q">>], [Good EXCEPT !.key = "k2"], [Good EXCEPT !.iss = "x"],
     [Good EXCEPT !.alg = "none"], [Good EXCEPT !.aud = "x"], [Good EXCEPT !.exp = 9],
     [Good EXCEPT !.exp = NoTime], [Good EXCEPT !.bh = "big"], [Good EXCEPT !.numeric = FALSE],
     [Good EXCEPT !.numeric = FALSE, !.exp = 9]}

Request(path, query, body, length, declared) ==
    [method |-> "POST", path |-> path, query |-> query, body |-> body, length |-> length,
     declared |-> declared]

MCRequests ==
    {Request("async", "", "b1", 1, 1), Request("async", "", "b2", 1, 0),
     Request("async", "q", "b1", 1, 1), Request("async", "", "big", 2, 1),
     Request("async", "", "b1", 1, 2), Request("scan", "q", "b1", 2, 2),
     Request("scan", "q", "b2", 1, 1), Request("scan", "", "b1", 1, 1),
     [Request("async", "", "b1", 1, 1) EXCEPT !.method = "GET"]}

MCKeys == [iss \in {"drive"} |-> "k1"]
=============================================================================
