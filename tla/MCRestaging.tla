---------------------------- MODULE MCRestaging ----------------------------
(* Bundles of one source for one destination (the third for another), and  *)
(* quotas by destination on a link of its own, by both on pooled links and *)
(* strict, or by source on a link that does not exist; a command may       *)
(* replace one by a quota that refuses.                                    *)
EXTENDS Restaging

MCDest == [n \in Names |-> IF n = 3 THEN "e" ELSE "d"]
MCSource == [n \in Names |-> "s"]

Quota(internal, external, refuse, auto, link) ==
    [internal |-> internal, external |-> external, refuse |-> refuse,
     auto_reload |-> auto, link |-> link, record |-> TRUE]

QuotaMap(d, s) == [k \in Keys |-> IF k[1] = "dst" THEN d ELSE s]

Auto(internal, external, link) == Quota(internal, external, FALSE, TRUE, link)

MCQuotas == {Quota(1, 0, TRUE, TRUE, 1)}
MCSetups ==
    {[strict |-> FALSE, quota |-> QuotaMap(Auto(1, 0, 3), NoRecord)],
     [strict |-> TRUE,  quota |-> QuotaMap(Auto(1, 1, 1), Auto(1, 0, 2))],
     [strict |-> FALSE, quota |-> QuotaMap(NoRecord, Auto(1, 0, 4))]}
=============================================================================
