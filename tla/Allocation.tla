------------------------------ MODULE Allocation ------------------------------
(***************************************************************************)
(* One lease-month of the Texas allocation: allocation/v0.py splits the     *)
(* volume among the wells eligible that month, marts/tx_allocation.py      *)
(* decides who is eligible and files what nobody carries.  Volumes are in  *)
(* fractions of a barrel; a well is its api10.                             *)
(***************************************************************************)
EXTENDS Integers, FiniteSets, FiniteSetsExt

CONSTANTS
    Filing,  \* lease-months: [wells, volume, gas], wells by api10
    Month,   \* production_month
    NoDate,  \* a plug date nobody filed; a completion nobody filed is instant 0
    Parts    \* units of volume in a barrel

ASSUME AllocationAssumption == {Month, NoDate} \subseteq Nat /\ Parts \in Nat \ {0}

ASSUME FilingAssumption ==
    \A f \in Filing :
        /\ f.volume \in Int
        /\ IsFiniteSet(DOMAIN f.wells) /\ DOMAIN f.wells \subseteq Nat
        /\ \A w \in DOMAIN f.wells : {f.wells[w].completion, f.wells[w].plug} \subseteq Nat

VARIABLES
    filing,  \* the row of _LEASE_MONTHS with its lease's wells
    shares,  \* the rows of tx_allocated_production, by well
    cause    \* the cause of its row of tx_allocation_ledger, or "none"

allocationVars == <<filing, shares, cause>>

Unbuilt == <<>>

AllocationInit == filing \in Filing /\ shares = Unbuilt /\ cause = "none"

-----------------------------------------------------------------------------
CompletedAfter(well) == well.completion > Month
PluggedBefore(well)  == well.plug # NoDate /\ Month > well.plug

(* eligibility *)
Eligible(wells) == {w \in DOMAIN wells : ~CompletedAfter(wells[w]) /\ ~PluggedBefore(wells[w])}

Retired(well) == well.plug = NoDate /\ well.status = "plugged"

(* mutant: a gas lease passes its volume through to every well *)
PassesThrough(count, gas) == gas \/ count = 1

PassesVolume(count, gas) == count = 1

(* _class_for *)
ClassFor(well, isEligible, count, gas) ==
    IF ~isEligible THEN "excluded_after_plug"
    ELSE IF PassesVolume(count, gas)
    THEN IF gas THEN "observed_gas_well" ELSE "observed_single_well_lease"
    ELSE IF Retired(well) THEN "allocated_after_status_change"
    ELSE "allocated_equal_share"

Whole(volume, count) == (volume \div (count * Parts)) * Parts
Sign(volume) == IF volume < 0 THEN -1 ELSE 1

(* mutant: the floor of the signed volume *)
SignedSplit(volume, count) ==
    [base |-> Whole(volume, count), rest |-> volume - count * Whole(volume, count)]

Split(volume, count) ==
    LET base == Whole(Sign(volume) * volume, count)
    IN  [base |-> Sign(volume) * base, rest |-> volume - Sign(volume) * count * base]

(* allocate_lease_month *)
Allocated(wells, volume, gas) ==
    LET eligible == Eligible(wells)
        count    == Cardinality(eligible)
        split    == Split(volume, count)
        share(w) == IF w \notin eligible THEN 0
                    ELSE IF count = 1 THEN volume
                    ELSE split.base + IF w = Min(eligible) THEN split.rest ELSE 0
    IN  [w \in DOMAIN wells |->
            [volume |-> share(w),
             class  |-> ClassFor(wells[w], w \in eligible, count, gas)]]

(* mutant: what is not empty is after the month *)
CauseByDefault(wells) ==
    IF DOMAIN wells = {} THEN "no_crosswalk_row" ELSE "all_wells_after_month"

CauseOf(wells) ==
    IF DOMAIN wells = {} THEN "no_crosswalk_row"
    ELSE IF \A w \in DOMAIN wells : CompletedAfter(wells[w]) THEN "all_wells_after_month"
    ELSE IF \A w \in DOMAIN wells : PluggedBefore(wells[w]) THEN "all_wells_plugged_before_month"
    ELSE "no_eligible_well"

(* One turn of the loop of build *)
BuildRow ==
    /\ shares = Unbuilt /\ cause = "none"
    /\ IF Eligible(filing.wells) = {}
       THEN shares' = Unbuilt /\ cause' = CauseOf(filing.wells)
       ELSE shares' = Allocated(filing.wells, filing.volume, filing.gas) /\ cause' = "none"
    /\ UNCHANGED filing

AllocationSpec == AllocationInit /\ [][BuildRow]_allocationVars

-----------------------------------------------------------------------------
Built == shares # Unbuilt \/ cause # "none"

(* The shares of a lease-month are the volume to the last fraction, a       *)
(* correction takes no well the other way, and only the well of the lowest *)
(* api10 takes more than another (v0.py, allocate_lease_month).            *)
Conserved ==
    shares # Unbuilt =>
        LET eligible == Eligible(filing.wells)
        IN  /\ FoldFunction(+, 0, [w \in DOMAIN shares |-> shares[w].volume]) = filing.volume
            /\ \A w \in DOMAIN shares :
                  /\ shares[w].volume * filing.volume >= 0
                  /\ w \notin eligible => shares[w].volume = 0
            /\ \A v, w \in eligible \ {Min(eligible)} : shares[v].volume = shares[w].volume

(* What is served as observed at the well is the whole volume its lease     *)
(* filed, and nobody else has a share of it (v0.py, _class_for).           *)
ObservedIsWhole ==
    \A w \in DOMAIN shares :
        shares[w].class \in {"observed_gas_well", "observed_single_well_lease"} =>
            /\ shares[w].volume = filing.volume
            /\ \A v \in Eligible(filing.wells) : v = w

(* A lease-month nobody carries is filed under a cause that is true of      *)
(* every one of its wells (tx_allocation.py, CAUSES).                      *)
CauseTrue ==
    LET wells == filing.wells IN
    Built =>
      CASE cause = "none"             -> Eligible(wells) # {}
        [] cause = "no_crosswalk_row" -> DOMAIN wells = {}
        [] cause = "all_wells_after_month" ->
             \A w \in DOMAIN wells : wells[w].completion > Month
        [] cause = "all_wells_plugged_before_month" ->
             \A w \in DOMAIN wells : wells[w].plug < Month
        [] cause = "no_eligible_well" ->
             /\ \E w \in DOMAIN wells : wells[w].completion > Month
             /\ \E w \in DOMAIN wells : wells[w].completion <= Month
=============================================================================
