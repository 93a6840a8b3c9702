------------------------------ MODULE MCTwoPC ------------------------------
(* Instances of TwoPC for TLC. *)
EXTENDS TwoPC, TLC

CONSTANTS c1, c2, a, b, k

Writes(s) == [shard |-> s, writes |-> {k}, reads |-> {}]
Reads(s) == [shard |-> s, writes |-> {}, reads |-> {k}]

\* Branches on both shards, one that only reads, a shard that is not there, none.
Mixture == {<<Reads(b), Writes(a)>>, <<Writes(b)>>}
Assorted == {<<Writes(a), Writes(b)>>, <<Writes(a), Writes("gone")>>, <<>>}

Budget(clients, requests, crash, tears, outage, losses) ==
  [clients |-> clients, requests |-> requests, crash |-> crash, torn |-> tears,
   outage |-> outage, lost |-> losses]

\* Two clients, alone and with a crash; one client and several faults.
Mixed == {Budget({c1, c2}, Mixture, 0, 0, 0, 0),
          Budget({c1, c2}, {<<Writes(a), Writes(b)>>}, 1, 0, 0, 0),
          Budget({c1}, {<<Writes(a), Writes(b)>>}, 1, 0, 0, 1),
          Budget({c1}, {<<Writes(a), Writes(b)>>}, 1, 1, 0, 0),
          Budget({c1}, Assorted, 1, 0, 1, 0),
          Budget({c1}, {<<Writes(a)>>}, 0, 0, 1, 1)}
=============================================================================
