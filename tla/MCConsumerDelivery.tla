------------------------- MODULE MCConsumerDelivery -------------------------
(* Small instances of ConsumerDelivery for TLC. *)
EXTENDS ConsumerDelivery

CONSTANTS m1, m2, b1, b2

\* One scan reports one finding twice; another reports it with the same
\* identity but a different payload (its producedAt differs), and a second one.
TwoScans == {<< <<m1, b1>>, <<m1, b1>> >>, << <<m1, b2>>, <<m2, b1>> >>}
=============================================================================
