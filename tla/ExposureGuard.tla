--------------------------- MODULE ExposureGuard ---------------------------
(***************************************************************************)
(* LaunchExposureGuardV1: the ledger of the exposure each market last      *)
(* reported, and the launch cap every primary purchase is checked against. *)
(* A report is raised by a purchase at once but lowered only by sync, so   *)
(* it lags the market's real liability and must lag on the safe side.      *)
(***************************************************************************)
EXTENDS ProtocolMath

CONSTANTS
    InitialCap,       \* constructor argument initialCap
    CapOptions        \* the caps governance may raise to (bound of the runs)

ASSUME CapAssumption == InitialCap \in Nat \ {0} /\ CapOptions \subseteq Nat

VARIABLES
    registeredMarket,      \* [Markets -> BOOLEAN]
    reportedExposure,      \* [Markets -> Nat]
    totalReportedExposure,
    exposureCap,
    retired

guardVars == <<registeredMarket, reportedExposure, totalReportedExposure,
               exposureCap, retired>>

GuardInit ==
    /\ registeredMarket = [m \in Markets |-> FALSE]
    /\ reportedExposure = [m \in Markets |-> 0]
    /\ totalReportedExposure = 0
    /\ exposureCap = InitialCap
    /\ retired = FALSE

GuardTypeOK ==
    /\ registeredMarket \in [Markets -> BOOLEAN]
    /\ reportedExposure \in [Markets -> Nat]
    /\ totalReportedExposure \in Nat
    /\ exposureCap \in Nat
    /\ retired \in BOOLEAN

-----------------------------------------------------------------------------

\* Called by the factory while it deploys a market.
RegisterMarket(m) ==
    /\ ~registeredMarket[m]
    /\ registeredMarket' = [registeredMarket EXCEPT ![m] = TRUE]
    /\ UNCHANGED <<reportedExposure, totalReportedExposure, exposureCap, retired>>

Available ==
    IF totalReportedExposure >= exposureCap
      THEN 0 ELSE exposureCap - totalReportedExposure

\* Bug: any remaining headroom admits a purchase of any size.
ReserveIfHeadroom(m, amount) ==
    /\ registeredMarket[m]
    /\ ~retired
    /\ Available # 0
    /\ reportedExposure' = [reportedExposure EXCEPT ![m] = @ + amount]
    /\ totalReportedExposure' = totalReportedExposure + amount
    /\ UNCHANGED <<registeredMarket, exposureCap, retired>>

\* Called by a market inside a purchase; a no-op once the guard is retired.
Reserve(m, amount) ==
    /\ registeredMarket[m]
    /\ \/ /\ retired
          /\ UNCHANGED <<reportedExposure, totalReportedExposure>>
       \/ /\ ~retired
          /\ amount <= Available
          /\ reportedExposure' = [reportedExposure EXCEPT ![m] = @ + amount]
          /\ totalReportedExposure' = totalReportedExposure + amount
    /\ UNCHANGED <<registeredMarket, exposureCap, retired>>

\* Permissionless; current is what the market's guardExposure() answers.
Sync(m, current) ==
    /\ registeredMarket[m]
    /\ \/ /\ retired
          /\ UNCHANGED <<reportedExposure, totalReportedExposure>>
       \/ /\ ~retired
          /\ totalReportedExposure >= reportedExposure[m]  \* checked subtraction
          /\ reportedExposure' = [reportedExposure EXCEPT ![m] = current]
          /\ totalReportedExposure' =
                totalReportedExposure - reportedExposure[m] + current
    /\ UNCHANGED <<registeredMarket, exposureCap, retired>>

RaiseCap(newCap) ==
    /\ newCap >= exposureCap /\ newCap >= totalReportedExposure
    /\ exposureCap' = newCap
    /\ UNCHANGED <<registeredMarket, reportedExposure, totalReportedExposure, retired>>

RetireForever ==
    /\ ~retired
    /\ retired' = TRUE
    /\ UNCHANGED <<registeredMarket, reportedExposure, totalReportedExposure, exposureCap>>

=============================================================================
