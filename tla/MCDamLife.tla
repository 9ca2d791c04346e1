----------------------------- MODULE MCDamLife -----------------------------
(* Small instances of DamLife for TLC.                                       *)
EXTENDS DamLife, TLC

CONSTANTS p1, p2, c1, noone

MCAttempts == 1..3
MCContracts == {c1}
MCProcesses == {p1, p2}
MCOffers == {[back |-> TRUE, noLitter |-> TRUE, small |-> TRUE]}

(* Seven lives: two breedings, by runs that exclude each other; one of a dam *)
(* for sale, by runs that overlap; one of a dam whose accident may still     *)
(* come; a Return Service, an approval and an emergency that two requests    *)
(* are after; and a sale and an accident that two requests are after.        *)
Life(past, overlap, sale, hurt, seeds, runs, requests) ==
    [past |-> past, overlapping |-> overlap, listing |-> sale, survivor |-> hurt,
     seeds |-> seeds, jobs |-> runs, webs |-> requests]

MCLives == {
    Life(<<None, "free", "free">>, FALSE, "NONE", TRUE, {"barren", "small", "crisis"}, {p1}, {p2}),
    Life(<<None, None, "free">>, TRUE, "ACTIVE", TRUE, Seeds, {p1}, {p2}),
    Life(<<None, None, "free">>, FALSE, "NONE", FALSE, Seeds, {p1}, {p2}),
    Life(<<c1, "free", "free">>, FALSE, "NONE", TRUE, {"barren"}, {p1}, {p1, p2}),
    Life(<<None, "free", "free">>, FALSE, "NONE", TRUE, {"barren"}, {p1}, {p1, p2}),
    Life(<<None, None, "free">>, FALSE, "NONE", TRUE, {"crisis"}, {p1}, {p1, p2}),
    Life(<<None, None, None>>, FALSE, "ACTIVE", FALSE, {"barren"}, {p1}, {p1, p2})}
=============================================================================
