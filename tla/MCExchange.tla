----------------------------- MODULE MCExchange -----------------------------
(* A small instance of Exchange: requests of two operators, signed ahead   *)
(* of the source's clock.                                                   *)
EXTENDS Exchange

CONSTANTS k1, k2, p1, p2, c1, d1, d2, a1, n1, n2, n3

Signed(k, p, t, nonce, method, d) ==
  [key |-> k, signer |-> p, cap |-> a1, notBefore |-> 1, expires |-> MaxTime + 1,
   timestamp |-> t, nonce |-> nonce, method |-> method, chain |-> c1, delegation |-> d]

MCRequest ==
  {Signed(k1, p1, 2, n1, "emit", d1), Signed(k1, p1, 0, n2, "revoke", d1),
   Signed(k2, p2, 2, n3, "emit", d2)}
=============================================================================
