------------------------------- MODULE MCReplay -------------------------------
(***************************************************************************)
(* Replay on a small instance: a batch that began before midnight and      *)
(* ended after it, an event in two objects with two destinations, one of   *)
(* them the live flush's, an object of an older writer, a corrupt one, two *)
(* tenants.                                                                *)
(***************************************************************************)
EXTENDS Replay

Rec(e, host, kind) == [event |-> e, host |-> host, kind |-> kind]

MCLog == << [day |-> 1, records |-> <<Rec("e1", "h1", "ok"), Rec("e2", "h1", "ok")>>],
            [day |-> 1, records |-> <<Rec("e1", "h2", "ok")>>],
            [day |-> 2, records |-> <<Rec("e3", "h1", "invalid")>>],
            [day |-> 3, records |-> <<Rec("e4", "h1", "corrupt")>>] >>

MCDayOf == [e1 |-> 1, e2 |-> 2, e3 |-> 2, e4 |-> 3]
MCTenantOf == [e1 |-> "t1", e2 |-> "t2", e3 |-> "t1", e4 |-> "t1"]

Ask(from, to, tenant, mode, batch) ==
    [from |-> from, to |-> to, tenant |-> tenant, mode |-> mode, batch |-> batch,
     endpoint |-> TRUE, account |-> "none"]

MCRequests == { Ask(1, 1, "t1", "replay", 2), Ask(1, 2, "any", "report", 2),
                Ask(2, 2, "any", "replay", 2), Ask(3, 3, "any", "report", 2),
                Ask(2, 2, "any", "dry", 2),
                Ask(2, 1, "any", "replay", 2), Ask(1, 3, "any", "replay", 2),
                [Ask(1, 1, "any", "replay", 2) EXCEPT !.endpoint = FALSE],
                [Ask(1, 1, "any", "replay", 2) EXCEPT !.endpoint = FALSE, !.account = "malformed"] }

\* The day on which the batch ended, for the tenant whose event it is.
RangeRequests == {Ask(2, 2, "t2", "replay", 2)}
=============================================================================
