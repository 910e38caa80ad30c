----------------------------- MODULE PlcAdapters -----------------------------
(* The two network adapters behind IPlcInterface.  A program is linked with *)
(* one of them; the other one's state stays as it is.                       *)
EXTENDS OpcUaPlc, S7DbLayout

CONSTANTS
    S7Command,   \* commands that the PLC program gives
    S7Status,    \* statuses that the caller writes
    NoValue      \* std::nullopt, or no call yet

ASSUME S7Assumption ==
    S7Command \subseteq PlcCommandData /\ S7Status \subseteq PlcStatusData

VARIABLES
    linked,   \* "opc_ua" or "s7"
    connected, failed, db, s7_received, given, delivered, attempted   \* S7Plc

S7 ==
    INSTANCE S7Plc WITH
        received <- s7_received, Command <- S7Command, Status <- S7Status

s7_vars == <<connected, failed, db, s7_received, given, delivered, attempted>>

AdaptersInit == linked \in {"opc_ua", "s7"} /\ Init /\ S7!Init

AdaptersNext ==
    /\ UNCHANGED linked
    /\ \/ linked = "opc_ua" /\ Next /\ UNCHANGED s7_vars
       \/ linked = "s7" /\ S7!Next /\ UNCHANGED vars

AdaptersSpec == AdaptersInit /\ [][AdaptersNext]_<<vars, s7_vars, linked>>

CommandIntact == S7!CommandIntact
StatusIntact == S7!StatusIntact

=============================================================================
