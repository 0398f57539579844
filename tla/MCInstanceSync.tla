---------------------------- MODULE MCInstanceSync ----------------------------
EXTENDS InstanceSync

Base == [wellFormed |-> TRUE, ver |-> [c \in Components |-> 1], on |-> {}, stores |-> 3, copies |-> 3,
         size |-> [c \in Stateful |-> 10 * Gib], limit |-> 0, user |-> {}, scrape |-> FALSE]

At2(cs) == [c \in Components |-> IF c \in cs THEN 2 ELSE 1]
Flash(s) == [s EXCEPT !.on = {"tiflash"}]

(* Upgrades of some components, in and out of order, with and without TiFlash.  *)
Versions ==
    [legacy |-> TRUE, legacySpec |-> Base, crds |-> FALSE,
     specs |-> {Flash(Base), [Flash(Base) EXCEPT !.ver = At2({"pd", "tiflash"})],
                [Base EXCEPT !.ver = At2({"pd"})],
                [Base EXCEPT !.ver = At2(Core)], [Base EXCEPT !.ver = At2({"tikv"})]}]

(* Scaling between one node and three; the copies edited; more copies than     *)
(* PD's default; TiFlash turned on and off on too few nodes.                    *)
Scaling ==
    [legacy |-> FALSE, legacySpec |-> Base, crds |-> FALSE,
     specs |-> {[Base EXCEPT !.stores = 1, !.limit = 4 * Gib], Base, [Base EXCEPT !.wellFormed = FALSE]}]

Copies ==
    [legacy |-> FALSE, legacySpec |-> Base, crds |-> FALSE,
     specs |-> {Base, [Base EXCEPT !.stores = 2, !.copies = 2]}]

FewNodes ==
    [legacy |-> TRUE, legacySpec |-> [Base EXCEPT !.stores = 2], crds |-> FALSE,
     specs |-> {[Base EXCEPT !.stores = 2], Flash([Base EXCEPT !.stores = 2])}]

ManyCopies ==
    [legacy |-> FALSE, legacySpec |-> Base, crds |-> FALSE,
     specs |-> {[Base EXCEPT !.stores = 5, !.copies = 4], [Base EXCEPT !.stores = 3, !.copies = 4]}]

(* Memory limits around the boundaries, growing and shrinking volumes.          *)
Big == [Base EXCEPT !.size = [c \in Stateful |-> 100 * Gib]]
Resources ==
    [legacy |-> TRUE, legacySpec |-> [Base EXCEPT !.limit = 2 * Gib], crds |-> TRUE,
     specs |-> {[Base EXCEPT !.limit = 2 * Gib, !.scrape = TRUE],
                Flash([Big EXCEPT !.limit = 8 * Gib - Mib]), [Big EXCEPT !.limit = 8 * Gib],
                Flash([Big EXCEPT !.limit = 5 * Gib, !.user = {"memory"}, !.size["tiflash"] = 10 * Gib])}]

(* TiProxy and monitoring, the operators of which are not installed.           *)
Extras ==
    [legacy |-> FALSE, legacySpec |-> Base, crds |-> FALSE,
     specs |-> {[Base EXCEPT !.on = {"tiproxy"}], [Base EXCEPT !.scrape = TRUE],
                [Base EXCEPT !.on = {"tiproxy"}, !.ver = At2({"tiproxy"})]}]

MCScenarios == {Versions, Scaling, Copies, FewNodes, ManyCopies, Resources, Extras}
=============================================================================
