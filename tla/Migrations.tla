----------------------------- MODULE Migrations -----------------------------
(***************************************************************************)
(* The database: the revisions of alembic/versions, each a composition of  *)
(* the operations it calls, env.py, and init_db of db/session.py.          *)
(*                                                                         *)
(* The table alert_rules has its columns, some of them nullable; what no   *)
(* revision touches (user_id, threshold, recipients, active, the time      *)
(* stamps) is the one column "kept". A row is a function of the columns.   *)
(* Null is SQL's NULL, JsonNull a JSON column that holds null, and a list  *)
(* of hazards is a sequence, whose first element the downgrade keeps.      *)
(***************************************************************************)
EXTENDS Sequences, Integers

CONSTANTS Kept, Units, Hazards, Networks, Unattributed, Null, JsonNull, Failed

HazardLists == {<<v>> : v \in Hazards} \cup (Hazards \X Hazards)

(* What a column may hold, NULL aside.                                     *)
Values(c) ==
    CASE c = "kept"             -> Kept
      [] c = "risk_type"        -> Hazards
      [] c = "operational_unit" -> Units
      [] c = "risk_types"       -> HazardLists \cup {JsonNull}
      [] c = "network_id"       -> Networks \cup {Unattributed}
      [] c = "network_id_unset" -> BOOLEAN

ASSUME MigrationsAssumption ==
    /\ Unattributed \notin Networks
    /\ JsonNull \notin HazardLists
    /\ Null \notin Hazards \cup Networks \cup {Unattributed}
    /\ Null \notin HazardLists \cup {JsonNull}

(* No table is a table without columns, and without rows.                  *)
EmptyDatabase ==
    [version |-> 0, columns |-> {}, nullable |-> {}, rows |-> <<>>, settings |-> FALSE]

HasRules(db) == db.columns # {}

-----------------------------------------------------------------------------
(* The operations of alembic.op                                            *)

Extend(f, c, value) == [d \in DOMAIN f \cup {c} |-> IF d = c THEN value ELSE f[d]]

Without(f, c) == [d \in DOMAIN f \ {c} |-> f[d]]

OnRows(db, change(_)) == [db EXCEPT !.rows = [i \in DOMAIN db.rows |-> change(db.rows[i])]]

AddNullable(db, c) ==
    [OnRows(db, LAMBDA row : Extend(row, c, Null)) EXCEPT
        !.columns = @ \cup {c}, !.nullable = @ \cup {c}]

(* NOT NULL, with a server_default for the rows there are.                 *)
AddColumn(db, c, default) ==
    [OnRows(db, LAMBDA row : Extend(row, c, default)) EXCEPT !.columns = @ \cup {c}]

DropColumn(db, c) ==
    [OnRows(db, LAMBDA row : Without(row, c)) EXCEPT
        !.columns = @ \ {c}, !.nullable = @ \ {c}]

HasNull(db, c) == \E i \in DOMAIN db.rows : db.rows[i][c] = Null

NotNull(db, c) == [db EXCEPT !.nullable = @ \ {c}]

-----------------------------------------------------------------------------
(* The revisions                                                           *)

Columns001 == {"kept", "risk_type", "operational_unit"}

Upgrade001(db) ==
    IF HasRules(db) \/ db.settings THEN Failed
    ELSE [version |-> 1, columns |-> Columns001, nullable |-> {"operational_unit"},
          rows |-> <<>>, settings |-> TRUE]

BackfillBoth(row) ==                            \* mutant: the rule gets every hazard
    IF row["risk_types"] = Null
    THEN [row EXCEPT !["risk_types"] = <<row["risk_type"], CHOOSE v \in Hazards : v # row["risk_type"]>>,
                     !["network_id"] = Unattributed]
    ELSE row

(* Every row has just been given risk_types NULL, so the update is of all. *)
Backfill(row) ==
    IF row["risk_types"] = Null
    THEN [row EXCEPT !["risk_types"] = <<row["risk_type"]>>, !["network_id"] = Unattributed]
    ELSE row

Upgrade002Nullable(db) ==                       \* mutant: alter_column on risk_types only
    LET added  == AddNullable(AddNullable(db, "risk_types"), "network_id")
        strict == NotNull(OnRows(added, Backfill), "risk_types")
    IN  [DropColumn(DropColumn(strict, "risk_type"), "operational_unit") EXCEPT !.version = 2]

Upgrade002(db) ==
    LET added  == AddNullable(AddNullable(db, "risk_types"), "network_id")
        filled == OnRows(added, Backfill)
        strict == NotNull(NotNull(filled, "risk_types"), "network_id")
        done   == DropColumn(DropColumn(strict, "risk_type"), "operational_unit")
    IN  IF HasNull(filled, "risk_types") \/ HasNull(filled, "network_id") THEN Failed
        ELSE [done EXCEPT !.version = 2]

MarkNothing(row) == row                         \* mutant: the UPDATE of 003 is missing

MarkUnset(row) ==
    IF row["network_id"] = Unattributed THEN [row EXCEPT !["network_id_unset"] = TRUE] ELSE row

Upgrade003(db) ==
    LET added == AddColumn(db, "network_id_unset", FALSE)
    IN  [OnRows(added, MarkUnset) EXCEPT !.version = 3]

Downgrade001(db) == EmptyDatabase

(* risk_types->>0 of a JSON null is NULL.                                  *)
FirstHazard(row) ==
    [row EXCEPT !["risk_type"] = IF row["risk_types"] = JsonNull THEN Null ELSE row["risk_types"][1]]

Downgrade002Unchecked(db) ==                    \* mutant: NOT NULL whatever the rows hold
    LET added    == AddNullable(AddNullable(db, "risk_type"), "operational_unit")
        strict   == NotNull(OnRows(added, FirstHazard), "risk_type")
    IN  [DropColumn(DropColumn(strict, "network_id"), "risk_types") EXCEPT !.version = 1]

Downgrade002(db) ==
    LET added    == AddNullable(AddNullable(db, "risk_type"), "operational_unit")
        restored == OnRows(added, FirstHazard)
        strict   == NotNull(restored, "risk_type")
        done     == DropColumn(DropColumn(strict, "network_id"), "risk_types")
    IN  IF HasNull(restored, "risk_type") THEN Failed ELSE [done EXCEPT !.version = 1]

Downgrade003(db) == [DropColumn(db, "network_id_unset") EXCEPT !.version = 2]

(* alembic upgrade head: one transaction for all the revisions that are    *)
(* missing. A database that create_all made has no version, and its tables *)
(* stand in the way of 001.                                                *)
UpgradeHead(db) ==
    LET at1 == IF db.version = 0 THEN Upgrade001(db) ELSE db
        at2 == IF at1 # Failed /\ at1.version = 1 THEN Upgrade002(at1) ELSE at1
    IN  IF at2 # Failed /\ at2.version = 2 THEN Upgrade003(at2) ELSE at2

DowngradeOne(db) ==
    CASE db.version = 0 -> Failed
      [] db.version = 1 -> Downgrade001(db)
      [] db.version = 2 -> Downgrade002(db)
      [] db.version = 3 -> Downgrade003(db)

-----------------------------------------------------------------------------
(* The models, and what the service does to the database at startup        *)

ModelColumns == {"kept", "risk_types", "network_id", "network_id_unset"}

(* metadata.create_all: the tables that are missing, and nothing else.     *)
CreateAll(db) ==
    [db EXCEPT !.columns = IF HasRules(db) THEN @ ELSE ModelColumns, !.settings = TRUE]

(* An INSERT of the service names the columns of the model.                *)
Insertable(db) ==
    /\ ModelColumns \subseteq db.columns
    /\ db.columns \ ModelColumns \subseteq db.nullable
=============================================================================
