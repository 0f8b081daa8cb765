------------------------ MODULE MCReliablePublisher ------------------------
(* A small instance of ReliablePublisher.                                  *)
EXTENDS ReliablePublisher

CONSTANTS w1, w2, main, m1, m2, k1, k2, k3

MCWorkers == {w1, w2}
MCThreads == {w1, w2, main}
=============================================================================
