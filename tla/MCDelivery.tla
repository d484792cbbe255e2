----------------------------- MODULE MCDelivery -----------------------------
\* Delivery on small instances: requests of both endpoints, of both kinds and of
\* every chain, with and without tools and keys.
EXTENDS Delivery

Request(endpoint, chain, stream, keyed, tools) ==
  [endpoint |-> endpoint, chain |-> chain, stream |-> stream, keyed |-> keyed, tools |-> tools]

Mixed ==
  {Request("chat", "none", TRUE, TRUE, TRUE),
   Request("chat", "none", TRUE, FALSE, FALSE),
   Request("chat", "none", FALSE, TRUE, FALSE),
   Request("responses", "first", TRUE, TRUE, TRUE),
   Request("responses", "continuation", TRUE, TRUE, FALSE),
   Request("responses", "unstored", TRUE, FALSE, FALSE),
   Request("responses", "first", FALSE, TRUE, TRUE),
   Request("responses", "continuation", FALSE, FALSE, FALSE)}

=============================================================================
