------------------------------- MODULE MCParts -------------------------------
(* The small machines of the system, each explored from its own initial     *)
(* states while the others rest at one of theirs: the order of a tick over *)
(* every registry of a few jobs, the login limiter, a session's windows,   *)
(* the rate limit, the migration runner, the allocation of a lease-month   *)
(* and the pads of a split.                                                *)
EXTENDS JobOrder, LoginLimiter, SessionWindows, RateWindow, Migrations,
        Allocation, PadGroups, TLC

CONSTANTS a, b, c, d, n1, c1, c2, i1, i2, lone, pair

VARIABLE part

vars == <<part, registry, limiterVars, sessionVars, rateVars, migrationVars,
          allocationVars, padVars>>

MCJob == {a, b, c, d}
MCRank == [j \in MCJob |-> CASE j = a -> 1 [] j = b -> 2 [] j = c -> 3 [] OTHER -> 4]
NoJob == {}
NoRegistry == [j \in NoJob |-> NoJob]

MCDatabaseOf == (1 :> pair) @@ (2 :> pair) @@ (3 :> lone)

(* leases of up to three wells, with halves of a barrel *)
MCWell == [completion : {0, 3}, plug : {1, 9}, status : {"active", "plugged"}]
MCFiling ==
    [wells : UNION {[S -> MCWell] : S \in SUBSET (1..3)}, volume : -7..7, gas : BOOLEAN]
RestFiling == [wells |-> <<>>, volume |-> 0, gas |-> FALSE]

(* three wells on a grid of cells two wide, or with nothing but a unit *)
MCPlace == [x : {-3, -1, 1}, y : {-1, 0}] \cup {NoPlace}
MCPadWell ==
    {[place |-> p, unit |-> u, completion |-> day, first |-> 2 * day] :
        p \in MCPlace, u \in {"u", NoUnit}, day \in {0, 1, 3}}
MCPopulation ==
    [1..3 -> {well \in MCPadWell : well.place = NoPlace \/ well.unit = NoUnit}]
RestPopulation ==
    [w \in {1} |-> [place |-> NoPlace, unit |-> NoUnit, completion |-> 0, first |-> 0]]

-----------------------------------------------------------------------------
Init ==
    /\ part \in {"order", "limiter", "session", "rate", "migrations", "allocation", "pads"}
    /\ OrderInit /\ LimiterInit /\ SessionInit /\ RateInit /\ MigrationInit
    /\ IF part = "allocation" THEN AllocationInit
       ELSE filing = RestFiling /\ shares = Unbuilt /\ cause = "none"
    /\ IF part = "pads" THEN PadInit
       ELSE /\ wells = RestPopulation /\ cells = {} /\ root = [w \in {1} |-> w]
            /\ partition = Everywhere("none")

Next ==
    /\ UNCHANGED part
    /\ part # "order"      => UNCHANGED registry
    /\ part # "limiter"    => UNCHANGED limiterVars
    /\ part # "session"    => UNCHANGED sessionVars
    /\ part # "rate"       => UNCHANGED rateVars
    /\ part # "migrations" => UNCHANGED migrationVars
    /\ part # "allocation" => UNCHANGED allocationVars
    /\ part # "pads"       => UNCHANGED padVars
    /\ \/ part = "order"      /\ OrderNext
       \/ part = "limiter"    /\ LimiterNext
       \/ part = "session"    /\ SessionNext
       \/ part = "rate"       /\ RateNext
       \/ part = "migrations" /\ MigrationNext
       \/ part = "allocation" /\ BuildRow
       \/ part = "pads"       /\ (Place \/ Assign)

Spec == Init /\ [][Next]_vars

PartsSymmetry == Permutations({c1, c2})

TypeOK == SessionTypeOK /\ RateTypeOK /\ MigrationTypeOK

=============================================================================
