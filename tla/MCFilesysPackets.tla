-------------------------- MODULE MCFilesysPackets --------------------------
(* One unit and a few packets; every packet is alike.  With a symmetry set that
   halves the states of a safety run; for liveness the packets are numbers, sent
   in their order. *)
EXTENDS FilesysPackets, TLC

PacketSymmetry == Permutations(Packets)

Sent(p) == status[p] # "none" \/ replies[p] > 0 \/ Contains(port, p)

InOrder == \A p, q \in Packets : p < q /\ Sent(q)' => Sent(p)

OrderedSpec == Init /\ [][Next /\ InOrder]_vars /\ Fairness
=============================================================================
