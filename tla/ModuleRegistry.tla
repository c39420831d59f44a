-------------------------- MODULE ModuleRegistry --------------------------
(***************************************************************************)
(* The states of the modules and their overrides per zone                  *)
(* (copilot_core/module_registry.py): two SQLite tables, each call one     *)
(* transaction under the registry's lock.  No call deletes a row.          *)
(***************************************************************************)
CONSTANTS
  Zones, Modules,
  StoredRows,   \* tables that an earlier run of the process may have left
  NoRow

States == {"active", "learning", "off"}   \* VALID_STATES
ASSUME RowsAssumption ==
  NoRow \notin States /\ StoredRows \subseteq [Modules -> States \cup {NoRow}]

VARIABLES
  moduleRow,   \* state per module in module_states, or NoRow
  zoneRow      \* state per zone and module in zone_module_states, or NoRow

registry == <<moduleRow, zoneRow>>

RegistryInit ==
  /\ moduleRow \in StoredRows
  /\ zoneRow = [z \in Zones |-> [m \in Modules |-> NoRow]]

\* get_state(): DEFAULT_STATE when the module was never configured
GlobalState(m) == IF moduleRow[m] = NoRow THEN "active" ELSE moduleRow[m]

\* What get_zone_state() would return if it were one transaction.
ZoneState(z, m) == IF zoneRow[z][m] = NoRow THEN GlobalState(m) ELSE zoneRow[z][m]

\* set_state(), set_zone_state(): the row is committed and published under the
\* lock; nothing in the repository subscribes to these two events.
SetState(m, s) ==
  /\ moduleRow' = [moduleRow EXCEPT ![m] = s]
  /\ UNCHANGED zoneRow

SetZoneState(z, m, s) ==
  /\ zoneRow' = [zoneRow EXCEPT ![z][m] = s]
  /\ UNCHANGED moduleRow
=============================================================================
