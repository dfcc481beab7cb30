------------------------- MODULE MCProducerConsumer -------------------------
(* The values the configurations give to the parameters of ProducerConsumer. *)
EXTENDS ProducerConsumer

MCItems == {1, 2}
=============================================================================
