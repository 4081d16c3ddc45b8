------------------------- MODULE MCSecurityMonitor -------------------------
(***************************************************************************)
(* Two sections that share no state: the monitor, with a complete baseline *)
(* that is enforced, one that is not there, and one that is required but   *)
(* not there; and the audit trail.  A behaviour works in one of them and   *)
(* leaves the other where it began.                                        *)
(***************************************************************************)
EXTENDS SecurityMonitor, AuditTrail

CONSTANTS Sections, w1, w2

VARIABLE section

MCConfigs == {[identity |-> "expected", restore |-> TRUE],
              [identity |-> "absent", restore |-> FALSE],
              [identity |-> "required", restore |-> FALSE]}

SecurityInit ==
  /\ section \in Sections
  /\ Init /\ AuditInit
  /\ section = "audit" => config.identity = "expected"

SecurityNext ==
  \/ section = "monitor" /\ Next /\ UNCHANGED <<section, auditVars>>
  \/ section = "audit" /\ AuditNext /\ UNCHANGED <<section, vars>>

SecuritySpec == SecurityInit /\ [][SecurityNext]_<<section, vars, auditVars>>
FairSecuritySpec == SecuritySpec /\ Fairness
=============================================================================
