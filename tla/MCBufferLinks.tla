---------------------------- MODULE MCBufferLinks ----------------------------
(* The chains of buffers that TLC sends.                                     *)
EXTENDS BufferLinks

CONSTANTS b1, b2, b3, q1, q2

Chain(n1, n2, n3, s1, s2, s3, heads1, heads2) ==
    [next |-> [b \in Buffers |-> CASE b = b1 -> n1 [] b = b2 -> n2 [] b = b3 -> n3],
     size |-> [b \in Buffers |-> CASE b = b1 -> s1 [] b = b2 -> s2 [] b = b3 -> s3],
     heads |-> [q \in Queues |-> IF q = q1 THEN heads1 ELSE heads2]]

\* Both queues send the same chain, whose first buffer is empty.
SharedChains ==
    {Chain(b2, NoBuffer, NoBuffer, 0, 2, 1, <<b1>>, <<b1, b3>>)}

LinksSpec == LinksInit /\ [][LinksNext]_linksVars
=============================================================================
