-------------------------- MODULE DeploymentProofs --------------------------
(***************************************************************************)
(* Theorems of Deployment, for any rules, networks, hazards and            *)
(* configurations.                                                         *)
(*                                                                         *)
(* The argument: the revision determines the columns, and the columns what *)
(* a row holds (Row1, Row2, Row3). Each revision is shown to lead from one *)
(* shape to the next, each operation of alembic separately; a database     *)
(* that create_all made has the shape of the head without its number.      *)
(***************************************************************************)
EXTENDS Deployment, TLAPS

Columns002 == {"kept", "risk_types", "network_id"}

Row1(row) ==
    /\ DOMAIN row = Columns001
    /\ row["kept"] \in Kept
    /\ row["risk_type"] \in Hazards
    /\ row["operational_unit"] \in Units \cup {Null}

Row2(row) ==
    /\ DOMAIN row = Columns002
    /\ row["kept"] \in Kept
    /\ row["risk_types"] \in HazardLists \cup {JsonNull}
    /\ row["network_id"] \in Networks \cup {Unattributed}

Row3(row) ==
    /\ DOMAIN row = ModelColumns
    /\ row["kept"] \in Kept
    /\ row["risk_types"] \in HazardLists \cup {JsonNull}
    /\ row["network_id"] \in Networks \cup {Unattributed}
    /\ row["network_id_unset"] \in BOOLEAN
    /\ row["network_id_unset"] <=> row["network_id"] = Unattributed

IsDatabase(d) ==
    /\ d = [f \in {"version", "columns", "nullable", "rows", "settings"} |-> d[f]]
    /\ d.settings \in BOOLEAN

Empty(d) == d.version = 0 /\ d.columns = {} /\ d.nullable = {} /\ DOMAIN d.rows = {}

Shape1(d) ==
    /\ d.version = 1 /\ d.columns = Columns001 /\ d.nullable = {"operational_unit"}
    /\ \A i \in DOMAIN d.rows : Row1(d.rows[i])

Shape2(d) ==
    /\ d.version = 2 /\ d.columns = Columns002 /\ d.nullable = {}
    /\ \A i \in DOMAIN d.rows : Row2(d.rows[i])

Shape3(d) ==
    /\ d.version \in {0, 3} /\ d.columns = ModelColumns /\ d.nullable = {}
    /\ \A i \in DOMAIN d.rows : Row3(d.rows[i])

DatabaseOK(d) ==
    /\ IsDatabase(d)
    /\ DOMAIN d.rows \subseteq RuleIds
    /\ Empty(d) \/ Shape1(d) \/ Shape2(d) \/ Shape3(d)

-----------------------------------------------------------------------------
(* The operations of alembic                                               *)

(* An ADD COLUMN that may be NULL: every row gets the NULL.                *)
LEMMA AddNullableIs ==
    ASSUME NEW d, IsDatabase(d), NEW c
    PROVE  LET e == AddNullable(d, c)
           IN  /\ IsDatabase(e)
               /\ e.version = d.version /\ e.settings = d.settings
               /\ e.columns = d.columns \cup {c} /\ e.nullable = d.nullable \cup {c}
               /\ e.rows = [i \in DOMAIN d.rows |-> Extend(d.rows[i], c, Null)]
<1> DEFINE rows == [i \in DOMAIN d.rows |-> Extend(d.rows[i], c, Null)]
           mid  == [d EXCEPT !.rows = rows]
<1>1. AddNullable(d, c) = [mid EXCEPT !.columns = mid.columns \cup {c}, !.nullable = mid.nullable \cup {c}]
  BY DEF AddNullable, OnRows
<1>2. /\ IsDatabase(mid) /\ mid.version = d.version /\ mid.settings = d.settings
      /\ mid.columns = d.columns /\ mid.nullable = d.nullable /\ mid.rows = rows
  BY DEF IsDatabase
<1> HIDE DEF mid, rows
<1>3. /\ IsDatabase(AddNullable(d, c))
      /\ AddNullable(d, c).version = mid.version /\ AddNullable(d, c).settings = mid.settings
      /\ AddNullable(d, c).columns = mid.columns \cup {c}
      /\ AddNullable(d, c).nullable = mid.nullable \cup {c}
      /\ AddNullable(d, c).rows = mid.rows
  BY <1>1, <1>2 DEF IsDatabase
<1> QED
  BY <1>2, <1>3 DEF rows

(* A DROP COLUMN: every row loses its cell, the rest stays.                *)
LEMMA DropColumnIs ==
    ASSUME NEW d, IsDatabase(d), NEW c
    PROVE  LET e == DropColumn(d, c)
           IN  /\ IsDatabase(e)
               /\ e.version = d.version /\ e.settings = d.settings
               /\ e.columns = d.columns \ {c} /\ e.nullable = d.nullable \ {c}
               /\ e.rows = [i \in DOMAIN d.rows |-> Without(d.rows[i], c)]
<1> DEFINE rows == [i \in DOMAIN d.rows |-> Without(d.rows[i], c)]
           mid  == [d EXCEPT !.rows = rows]
<1>1. DropColumn(d, c) = [mid EXCEPT !.columns = mid.columns \ {c}, !.nullable = mid.nullable \ {c}]
  BY DEF DropColumn, OnRows
<1>2. /\ IsDatabase(mid) /\ mid.version = d.version /\ mid.settings = d.settings
      /\ mid.columns = d.columns /\ mid.nullable = d.nullable /\ mid.rows = rows
  BY DEF IsDatabase
<1> HIDE DEF mid, rows
<1>3. /\ IsDatabase(DropColumn(d, c))
      /\ DropColumn(d, c).version = mid.version /\ DropColumn(d, c).settings = mid.settings
      /\ DropColumn(d, c).columns = mid.columns \ {c}
      /\ DropColumn(d, c).nullable = mid.nullable \ {c}
      /\ DropColumn(d, c).rows = mid.rows
  BY <1>1, <1>2 DEF IsDatabase
<1> QED
  BY <1>2, <1>3 DEF rows

(* A column made NOT NULL: the rows stay.                                  *)
LEMMA NotNullIs ==
    ASSUME NEW d, IsDatabase(d), NEW c
    PROVE  LET e == NotNull(d, c)
           IN  /\ IsDatabase(e)
               /\ e.version = d.version /\ e.settings = d.settings
               /\ e.columns = d.columns /\ e.nullable = d.nullable \ {c}
               /\ e.rows = d.rows
  BY DEF IsDatabase, NotNull

(* The number of a revision is written when it is done.                    *)
LEMMA StampIs ==
    ASSUME NEW d, IsDatabase(d), NEW version
    PROVE  LET e == [d EXCEPT !.version = version]
           IN  /\ IsDatabase(e)
               /\ e.version = version /\ e.settings = d.settings
               /\ e.columns = d.columns /\ e.nullable = d.nullable
               /\ e.rows = d.rows
  BY DEF IsDatabase

-----------------------------------------------------------------------------
(* The revisions                                                           *)

(* Every rule stays, for its owner, on the hazards it watched.             *)
Carries(d, e) ==
    /\ DOMAIN e.rows = DOMAIN d.rows
    /\ \A i \in DOMAIN d.rows :
         /\ e.rows[i]["kept"] = d.rows[i]["kept"]
         /\ Watched(e.rows[i]) = Watched(d.rows[i])

(* 001 up: the tables, where there are none, without a row.                *)
LEMMA Upgrade001Is ==
    ASSUME NEW d, DatabaseOK(d), d.version = 0, Upgrade001(d) # Failed
    PROVE  /\ DatabaseOK(Upgrade001(d)) /\ Shape1(Upgrade001(d))
           /\ DOMAIN d.rows = {} /\ DOMAIN Upgrade001(d).rows = {}
           /\ Upgrade001(d).settings
<1>1. Empty(d)
  BY DEF DatabaseOK, Shape1, Shape2, Shape3, HasRules, ModelColumns, Upgrade001
<1>2. Upgrade001(d) = [version |-> 1, columns |-> Columns001, nullable |-> {"operational_unit"},
                       rows |-> <<>>, settings |-> TRUE]
  BY DEF Upgrade001
<1> DEFINE e == Upgrade001(d)
<1>3. /\ IsDatabase(e) /\ e.version = 1 /\ e.columns = Columns001
      /\ e.nullable = {"operational_unit"} /\ DOMAIN e.rows = {} /\ e.settings
  <2>1. e.version = 1 /\ e.columns = Columns001 /\ e.nullable = {"operational_unit"}
    BY <1>2
  <2>2. e.rows = <<>>
    BY <1>2
  <2>3. DOMAIN e.rows = {}
    BY <2>2
  <2>4. e.settings
    <3>1. [version |-> 1, columns |-> Columns001, nullable |-> {"operational_unit"},
           rows |-> <<>>, settings |-> TRUE].settings = TRUE
      OBVIOUS
    <3>2. Upgrade001(d).settings = TRUE
      BY <1>2, <3>1, Zenon
    <3> QED
      BY <3>2, Zenon DEF e
  <2>5. IsDatabase(e)
    BY <1>2, <2>4, Zenon DEF IsDatabase
  <2> QED
    BY <2>1, <2>3, <2>4, <2>5
<1>4. DOMAIN d.rows = {}
  BY <1>1 DEF Empty
<1> HIDE DEF e
<1>5. Shape1(e)
  BY <1>3 DEF Shape1
<1> QED
  BY <1>3, <1>4, <1>5 DEF DatabaseOK, e

(* The row that 002 leaves of a row of 001.                                *)
Row002(row) ==
    Without(Without(Backfill(Extend(Extend(row, "risk_types", Null), "network_id", Null)),
                    "risk_type"), "operational_unit")

(* It watches the one hazard the row watched, under no network.            *)
LEMMA Row002Is ==
    ASSUME NEW row, Row1(row)
    PROVE  /\ Row2(Row002(row))
           /\ Row002(row)["kept"] = row["kept"]
           /\ Watched(Row002(row)) = Watched(row)
<1> DEFINE added == Extend(Extend(row, "risk_types", Null), "network_id", Null)
           filled == Backfill(added)
<1>1. /\ DOMAIN added = {"kept", "risk_type", "operational_unit", "risk_types", "network_id"}
      /\ added["kept"] = row["kept"] /\ added["risk_type"] = row["risk_type"]
      /\ added["risk_types"] = Null
  BY DEF Row1, Columns001, Extend
<1>2. filled = [added EXCEPT !["risk_types"] = <<row["risk_type"]>>, !["network_id"] = Unattributed]
  BY <1>1 DEF Backfill
<1>3. /\ DOMAIN filled = {"kept", "risk_type", "operational_unit", "risk_types", "network_id"}
      /\ filled["kept"] = row["kept"] /\ filled["risk_types"] = <<row["risk_type"]>>
      /\ filled["network_id"] = Unattributed
  BY <1>1, <1>2
<1>4. /\ DOMAIN Row002(row) = {"kept", "risk_types", "network_id"}
      /\ Row002(row)["kept"] = row["kept"]
      /\ Row002(row)["risk_types"] = <<row["risk_type"]>>
      /\ Row002(row)["network_id"] = Unattributed
  BY <1>3 DEF Row002, Without
<1>5. row["risk_type"] \in Hazards /\ row["kept"] \in Kept
  BY DEF Row1
<1>6. <<row["risk_type"]>> \in HazardLists
  BY <1>5 DEF HazardLists
<1>7. Row2(Row002(row))
  BY <1>4, <1>5, <1>6 DEF Row2, Columns002
<1>8. Watched(row) = {row["risk_type"]}
  BY DEF Row1, Columns001, Watched
<1>9. Watched(Row002(row)) = {row["risk_type"]}
  <2>1. Row002(row)["risk_types"] # JsonNull
    BY <1>4, <1>6, MigrationsAssumption
  <2>2. Watched(Row002(row)) = {<<row["risk_type"]>>[k] : k \in DOMAIN <<row["risk_type"]>>}
    BY <1>4, <2>1 DEF Watched
  <2> QED
    BY <2>2
<1> QED
  BY <1>4, <1>7, <1>8, <1>9

(* 002 up: the rules stay, on the hazard they watched.                     *)
LEMMA Upgrade002Is ==
    ASSUME NEW d, DatabaseOK(d), d.version = 1, Upgrade002(d) # Failed
    PROVE  /\ DatabaseOK(Upgrade002(d)) /\ Shape2(Upgrade002(d))
           /\ Carries(d, Upgrade002(d)) /\ Upgrade002(d).settings = d.settings
<1>1. IsDatabase(d) /\ Shape1(d) /\ DOMAIN d.rows \subseteq RuleIds
  BY DEF DatabaseOK, Empty, Shape2, Shape3
<1> DEFINE half   == AddNullable(d, "risk_types")
           added  == AddNullable(half, "network_id")
           filled == OnRows(added, Backfill)
           loose  == NotNull(filled, "risk_types")
           strict == NotNull(loose, "network_id")
           part   == DropColumn(strict, "risk_type")
           done   == DropColumn(part, "operational_unit")
           e      == [done EXCEPT !.version = 2]
<1>2. Upgrade002(d) = e
  BY DEF Upgrade002
<1>3. /\ IsDatabase(half) /\ half.settings = d.settings
      /\ half.columns = d.columns \cup {"risk_types"}
      /\ half.nullable = d.nullable \cup {"risk_types"}
      /\ half.rows = [i \in DOMAIN d.rows |-> Extend(d.rows[i], "risk_types", Null)]
  BY <1>1, AddNullableIs
<1>4. /\ IsDatabase(added) /\ added.settings = half.settings
      /\ added.columns = half.columns \cup {"network_id"}
      /\ added.nullable = half.nullable \cup {"network_id"}
      /\ added.rows = [i \in DOMAIN half.rows |-> Extend(half.rows[i], "network_id", Null)]
  BY <1>3, AddNullableIs
<1>5. /\ IsDatabase(filled) /\ filled.settings = added.settings
      /\ filled.columns = added.columns /\ filled.nullable = added.nullable
      /\ filled.rows = [i \in DOMAIN added.rows |-> Backfill(added.rows[i])]
  <2> HIDE DEF added
  <2> QED
    BY <1>4 DEF IsDatabase, OnRows
<1>6. /\ IsDatabase(loose) /\ loose.settings = filled.settings /\ loose.rows = filled.rows
      /\ loose.columns = filled.columns /\ loose.nullable = filled.nullable \ {"risk_types"}
  BY <1>5, NotNullIs
<1>7. /\ IsDatabase(strict) /\ strict.settings = loose.settings /\ strict.rows = loose.rows
      /\ strict.columns = loose.columns /\ strict.nullable = loose.nullable \ {"network_id"}
  BY <1>6, NotNullIs
<1>8. /\ IsDatabase(part) /\ part.settings = strict.settings
      /\ part.columns = strict.columns \ {"risk_type"}
      /\ part.nullable = strict.nullable \ {"risk_type"}
      /\ part.rows = [i \in DOMAIN strict.rows |-> Without(strict.rows[i], "risk_type")]
  BY <1>7, DropColumnIs
<1>9. /\ IsDatabase(done) /\ done.settings = part.settings
      /\ done.columns = part.columns \ {"operational_unit"}
      /\ done.nullable = part.nullable \ {"operational_unit"}
      /\ done.rows = [i \in DOMAIN part.rows |-> Without(part.rows[i], "operational_unit")]
  BY <1>8, DropColumnIs
<1>10. /\ IsDatabase(e) /\ e.version = 2 /\ e.settings = done.settings
       /\ e.columns = done.columns /\ e.nullable = done.nullable /\ e.rows = done.rows
  BY <1>9, StampIs
<1> HIDE DEF half, added, filled, loose, strict, part, done, e
<1>11. e.columns = Columns002 /\ e.nullable = {}
  BY <1>1, <1>3, <1>4, <1>5, <1>6, <1>7, <1>8, <1>9, <1>10 DEF Shape1, Columns001, Columns002
<1>12. e.rows = [i \in DOMAIN d.rows |-> Row002(d.rows[i])]
  <2>1. added.rows = [i \in DOMAIN d.rows |->
                        Extend(Extend(d.rows[i], "risk_types", Null), "network_id", Null)]
    BY <1>3, <1>4
  <2>2. strict.rows = [i \in DOMAIN d.rows |->
                        Backfill(Extend(Extend(d.rows[i], "risk_types", Null), "network_id", Null))]
    BY <2>1, <1>5, <1>6, <1>7
  <2> QED
    BY <2>2, <1>8, <1>9, <1>10 DEF Row002
<1>13. \A i \in DOMAIN d.rows : Row1(d.rows[i])
  BY <1>1 DEF Shape1
<1>14. Shape2(e) /\ Carries(d, e)
  BY <1>10, <1>11, <1>12, <1>13, Row002Is DEF Shape2, Carries
<1>15. e.settings = d.settings
  BY <1>3, <1>4, <1>5, <1>6, <1>7, <1>8, <1>9, <1>10
<1> QED
  BY <1>1, <1>2, <1>10, <1>12, <1>14, <1>15 DEF DatabaseOK

(* An ADD COLUMN with a server_default: every row gets the default.        *)
LEMMA AddColumnIs ==
    ASSUME NEW d, IsDatabase(d), NEW c, NEW default
    PROVE  LET e == AddColumn(d, c, default)
           IN  /\ IsDatabase(e)
               /\ e.version = d.version /\ e.settings = d.settings
               /\ e.columns = d.columns \cup {c} /\ e.nullable = d.nullable
               /\ e.rows = [i \in DOMAIN d.rows |-> Extend(d.rows[i], c, default)]
<1> DEFINE rows == [i \in DOMAIN d.rows |-> Extend(d.rows[i], c, default)]
           mid  == [d EXCEPT !.rows = rows]
<1>1. AddColumn(d, c, default) = [mid EXCEPT !.columns = mid.columns \cup {c}]
  BY DEF AddColumn, OnRows
<1>2. /\ IsDatabase(mid) /\ mid.version = d.version /\ mid.settings = d.settings
      /\ mid.columns = d.columns /\ mid.nullable = d.nullable /\ mid.rows = rows
  BY DEF IsDatabase
<1> HIDE DEF mid, rows
<1>3. /\ IsDatabase(AddColumn(d, c, default))
      /\ AddColumn(d, c, default).version = mid.version
      /\ AddColumn(d, c, default).settings = mid.settings
      /\ AddColumn(d, c, default).columns = mid.columns \cup {c}
      /\ AddColumn(d, c, default).nullable = mid.nullable
      /\ AddColumn(d, c, default).rows = mid.rows
  BY <1>1, <1>2 DEF IsDatabase
<1> QED
  BY <1>2, <1>3 DEF rows

(* 003: the new column is FALSE, and TRUE where no network is named.       *)
LEMMA Row003Is ==
    ASSUME NEW row, Row2(row), NEW no \in BOOLEAN, ~no
    PROVE  LET marked == MarkUnset(Extend(row, "network_id_unset", no))
           IN  /\ Row3(marked)
               /\ marked["kept"] = row["kept"]
               /\ marked["network_id"] = row["network_id"]
               /\ Watched(marked) = Watched(row)
<1> DEFINE wide   == Extend(row, "network_id_unset", no)
           marked == MarkUnset(wide)
<1>1. /\ DOMAIN wide = ModelColumns
      /\ wide["kept"] = row["kept"] /\ wide["risk_types"] = row["risk_types"]
      /\ wide["network_id"] = row["network_id"] /\ wide["network_id_unset"] = no
  BY DEF Row2, Columns002, ModelColumns, Extend
<1> HIDE DEF wide
<1>2. /\ DOMAIN marked = ModelColumns
      /\ marked["kept"] = row["kept"] /\ marked["risk_types"] = row["risk_types"]
      /\ marked["network_id"] = row["network_id"]
  BY <1>1 DEF MarkUnset, ModelColumns
<1>3. /\ marked["network_id_unset"] \in BOOLEAN
      /\ marked["network_id_unset"] <=> row["network_id"] = Unattributed
  <2>1. CASE row["network_id"] = Unattributed
    <3> DEFINE yes == TRUE
    <3>1. yes \in BOOLEAN /\ yes
      OBVIOUS
    <3>2. marked = [wide EXCEPT !["network_id_unset"] = yes]
      BY <1>1, <2>1 DEF MarkUnset
    <3> HIDE DEF yes, marked
    <3>3. marked["network_id_unset"] = yes
      BY <1>1, <3>2 DEF ModelColumns
    <3> QED
      BY <2>1, <3>1, <3>3, Zenon
  <2>2. CASE row["network_id"] # Unattributed
    <3>1. marked = wide
      BY <1>1, <2>2 DEF MarkUnset
    <3> HIDE DEF marked
    <3> QED
      BY <1>1, <2>2, <3>1
  <2> QED
    BY <2>1, <2>2
<1> HIDE DEF marked
<1>4. Row3(marked)
  BY <1>2, <1>3 DEF Row2, Row3
<1>5. Watched(marked) = Watched(row)
  BY <1>2 DEF Watched, Row2, Columns002, ModelColumns
<1> QED
  BY <1>2, <1>4, <1>5 DEF marked, wide

(* The network a rule is filed under does not change.                      *)
SameNetworks(d, e) == \A i \in DOMAIN d.rows : e.rows[i]["network_id"] = d.rows[i]["network_id"]

(* 003 up: the rules stay, under the network they were under.              *)
LEMMA Upgrade003Is ==
    ASSUME NEW d, DatabaseOK(d), d.version = 2
    PROVE  /\ DatabaseOK(Upgrade003(d)) /\ Shape3(Upgrade003(d)) /\ Upgrade003(d).version = 3
           /\ Carries(d, Upgrade003(d)) /\ SameNetworks(d, Upgrade003(d))
           /\ Upgrade003(d).settings = d.settings
<1>1. IsDatabase(d) /\ Shape2(d) /\ DOMAIN d.rows \subseteq RuleIds
  BY DEF DatabaseOK, Empty, Shape1, Shape3
<1> DEFINE no     == FALSE
           added  == AddColumn(d, "network_id_unset", no)
           marked == OnRows(added, MarkUnset)
           e      == [marked EXCEPT !.version = 3]
<1>2. no \in BOOLEAN /\ ~no
  OBVIOUS
<1>3. Upgrade003(d) = e
  BY Zenon DEF Upgrade003
<1> HIDE DEF no
<1>4. /\ IsDatabase(added) /\ added.settings = d.settings
      /\ added.columns = d.columns \cup {"network_id_unset"} /\ added.nullable = d.nullable
      /\ added.rows = [i \in DOMAIN d.rows |-> Extend(d.rows[i], "network_id_unset", no)]
  BY <1>1, AddColumnIs
<1>5. /\ IsDatabase(marked) /\ marked.settings = added.settings
      /\ marked.columns = added.columns /\ marked.nullable = added.nullable
      /\ marked.rows = [i \in DOMAIN added.rows |-> MarkUnset(added.rows[i])]
  <2> HIDE DEF added
  <2> QED
    BY <1>4 DEF IsDatabase, OnRows
<1>6. /\ IsDatabase(e) /\ e.version = 3 /\ e.settings = marked.settings
      /\ e.columns = marked.columns /\ e.nullable = marked.nullable /\ e.rows = marked.rows
  BY <1>5, StampIs
<1> HIDE DEF added, marked, e
<1>7. e.columns = ModelColumns /\ e.nullable = {} /\ e.settings = d.settings
  BY <1>1, <1>4, <1>5, <1>6 DEF Shape2, Columns002, ModelColumns
<1>8. e.rows = [i \in DOMAIN d.rows |-> MarkUnset(Extend(d.rows[i], "network_id_unset", no))]
  BY <1>4, <1>5, <1>6
<1>9. \A i \in DOMAIN d.rows : Row2(d.rows[i])
  BY <1>1 DEF Shape2
<1>10. Shape3(e) /\ Carries(d, e) /\ SameNetworks(d, e)
  BY <1>2, <1>6, <1>7, <1>8, <1>9, Row003Is DEF Shape3, Carries, SameNetworks
<1> QED
  BY <1>1, <1>3, <1>6, <1>7, <1>8, <1>10 DEF DatabaseOK

(* Every rule stays, for its owner, and watches nothing it did not watch.  *)
Keeps(d, e) ==
    /\ DOMAIN e.rows = DOMAIN d.rows
    /\ \A i \in DOMAIN d.rows :
         /\ e.rows[i]["kept"] = d.rows[i]["kept"]
         /\ Watched(e.rows[i]) \subseteq Watched(d.rows[i])

(* 003 down: the flag goes, nothing else does.                             *)
LEMMA Downgrade003Is ==
    ASSUME NEW d, DatabaseOK(d), d.version = 3
    PROVE  /\ DatabaseOK(Downgrade003(d)) /\ Shape2(Downgrade003(d))
           /\ Keeps(d, Downgrade003(d)) /\ SameNetworks(d, Downgrade003(d))
           /\ Downgrade003(d).settings = d.settings
<1>1. IsDatabase(d) /\ Shape3(d) /\ DOMAIN d.rows \subseteq RuleIds
  BY DEF DatabaseOK, Empty, Shape1, Shape2
<1> DEFINE dropped == DropColumn(d, "network_id_unset")
           e       == [dropped EXCEPT !.version = 2]
<1>2. Downgrade003(d) = e
  BY DEF Downgrade003
<1>3. /\ IsDatabase(dropped) /\ dropped.settings = d.settings
      /\ dropped.columns = d.columns \ {"network_id_unset"}
      /\ dropped.nullable = d.nullable \ {"network_id_unset"}
      /\ dropped.rows = [i \in DOMAIN d.rows |-> Without(d.rows[i], "network_id_unset")]
  BY <1>1, DropColumnIs
<1>4. /\ IsDatabase(e) /\ e.version = 2 /\ e.settings = dropped.settings
      /\ e.columns = dropped.columns /\ e.nullable = dropped.nullable /\ e.rows = dropped.rows
  BY <1>3, StampIs
<1> HIDE DEF dropped, e
<1>5. e.columns = Columns002 /\ e.nullable = {} /\ e.settings = d.settings
  BY <1>1, <1>3, <1>4 DEF Shape3, Columns002, ModelColumns
<1>6. e.rows = [i \in DOMAIN d.rows |-> Without(d.rows[i], "network_id_unset")]
  BY <1>3, <1>4
<1>7. ASSUME NEW i \in DOMAIN d.rows
      PROVE  /\ Row2(e.rows[i])
             /\ e.rows[i]["kept"] = d.rows[i]["kept"]
             /\ e.rows[i]["network_id"] = d.rows[i]["network_id"]
             /\ Watched(e.rows[i]) = Watched(d.rows[i])
  <2>1. Row3(d.rows[i])
    BY <1>1 DEF Shape3
  <2>2. /\ DOMAIN e.rows[i] = Columns002
        /\ e.rows[i]["kept"] = d.rows[i]["kept"]
        /\ e.rows[i]["risk_types"] = d.rows[i]["risk_types"]
        /\ e.rows[i]["network_id"] = d.rows[i]["network_id"]
    BY <1>6, <2>1 DEF Without, Row3, ModelColumns, Columns002
  <2> QED
    BY <2>1, <2>2 DEF Row2, Row3, Watched, ModelColumns, Columns002
<1>8. DOMAIN e.rows = DOMAIN d.rows
  BY <1>6
<1>9. Shape2(e) /\ Keeps(d, e) /\ SameNetworks(d, e)
  BY <1>4, <1>5, <1>7, <1>8 DEF Shape2, Keeps, SameNetworks
<1> QED
  BY <1>1, <1>2, <1>4, <1>5, <1>8, <1>9 DEF DatabaseOK

(* The row that the downgrade of 002 leaves, before the columns go.        *)
Restored(row) == FirstHazard(Extend(Extend(row, "risk_type", Null), "operational_unit", Null))

(* It watches the first of the hazards the row watched.                    *)
LEMMA Row001Is ==
    ASSUME NEW row, Row2(row), Restored(row)["risk_type"] # Null
    PROVE  LET kept == Without(Without(Restored(row), "network_id"), "risk_types")
           IN  /\ Row1(kept)
               /\ kept["kept"] = row["kept"]
               /\ Watched(kept) \subseteq Watched(row)
<1> DEFINE added == Extend(Extend(row, "risk_type", Null), "operational_unit", Null)
           kept  == Without(Without(Restored(row), "network_id"), "risk_types")
<1>1. /\ DOMAIN added = {"kept", "risk_type", "operational_unit", "risk_types", "network_id"}
      /\ added["kept"] = row["kept"] /\ added["risk_types"] = row["risk_types"]
      /\ added["operational_unit"] = Null
  BY DEF Row2, Columns002, Extend
<1> HIDE DEF added
<1>2. Restored(row) = [added EXCEPT !["risk_type"] =
                          IF added["risk_types"] = JsonNull THEN Null ELSE added["risk_types"][1]]
  BY DEF Restored, FirstHazard, added
<1>3. row["risk_types"] # JsonNull /\ row["risk_types"] \in HazardLists
  <2>1. Restored(row)["risk_type"] = IF added["risk_types"] = JsonNull THEN Null ELSE added["risk_types"][1]
    BY <1>1, <1>2
  <2> QED
    BY <1>1, <2>1 DEF Row2
<1>4. /\ DOMAIN Restored(row) = {"kept", "risk_type", "operational_unit", "risk_types", "network_id"}
      /\ Restored(row)["kept"] = row["kept"] /\ Restored(row)["operational_unit"] = Null
      /\ Restored(row)["risk_type"] = row["risk_types"][1]
  BY <1>1, <1>2, <1>3
<1>5. /\ DOMAIN kept = Columns001
      /\ kept["kept"] = row["kept"] /\ kept["operational_unit"] = Null
      /\ kept["risk_type"] = row["risk_types"][1]
  BY <1>4 DEF Without, Columns001
<1>6. row["risk_types"][1] \in Hazards /\ 1 \in DOMAIN row["risk_types"]
  BY <1>3 DEF HazardLists
<1> HIDE DEF kept
<1>7. Row1(kept)
  BY <1>5, <1>6 DEF Row1, Row2
<1>8. Watched(kept) = {row["risk_types"][1]}
  BY <1>5 DEF Watched, Columns001
<1>9. row["risk_types"][1] \in Watched(row)
  BY <1>3, <1>6 DEF Watched, Row2, Columns002
<1> QED
  BY <1>5, <1>7, <1>8, <1>9 DEF kept

(* 002 down, which fails on a rule without hazards: the rules stay.        *)
LEMMA Downgrade002Is ==
    ASSUME NEW d, DatabaseOK(d), d.version = 2, Downgrade002(d) # Failed
    PROVE  /\ DatabaseOK(Downgrade002(d)) /\ Shape1(Downgrade002(d))
           /\ Keeps(d, Downgrade002(d)) /\ Downgrade002(d).settings = d.settings
<1>1. IsDatabase(d) /\ Shape2(d) /\ DOMAIN d.rows \subseteq RuleIds
  BY DEF DatabaseOK, Empty, Shape1, Shape3
<1> DEFINE half     == AddNullable(d, "risk_type")
           added    == AddNullable(half, "operational_unit")
           restored == OnRows(added, FirstHazard)
           strict   == NotNull(restored, "risk_type")
           part     == DropColumn(strict, "network_id")
           done     == DropColumn(part, "risk_types")
           e        == [done EXCEPT !.version = 1]
<1>2. Downgrade002(d) = e /\ ~HasNull(restored, "risk_type")
  BY DEF Downgrade002
<1>3. /\ IsDatabase(half) /\ half.settings = d.settings
      /\ half.columns = d.columns \cup {"risk_type"}
      /\ half.nullable = d.nullable \cup {"risk_type"}
      /\ half.rows = [i \in DOMAIN d.rows |-> Extend(d.rows[i], "risk_type", Null)]
  BY <1>1, AddNullableIs
<1>4. /\ IsDatabase(added) /\ added.settings = half.settings
      /\ added.columns = half.columns \cup {"operational_unit"}
      /\ added.nullable = half.nullable \cup {"operational_unit"}
      /\ added.rows = [i \in DOMAIN half.rows |-> Extend(half.rows[i], "operational_unit", Null)]
  BY <1>3, AddNullableIs
<1>5. /\ IsDatabase(restored) /\ restored.settings = added.settings
      /\ restored.columns = added.columns /\ restored.nullable = added.nullable
      /\ restored.rows = [i \in DOMAIN added.rows |-> FirstHazard(added.rows[i])]
  <2> HIDE DEF added
  <2> QED
    BY <1>4 DEF IsDatabase, OnRows
<1>6. /\ IsDatabase(strict) /\ strict.settings = restored.settings /\ strict.rows = restored.rows
      /\ strict.columns = restored.columns /\ strict.nullable = restored.nullable \ {"risk_type"}
  BY <1>5, NotNullIs
<1>7. /\ IsDatabase(part) /\ part.settings = strict.settings
      /\ part.columns = strict.columns \ {"network_id"}
      /\ part.nullable = strict.nullable \ {"network_id"}
      /\ part.rows = [i \in DOMAIN strict.rows |-> Without(strict.rows[i], "network_id")]
  BY <1>6, DropColumnIs
<1>8. /\ IsDatabase(done) /\ done.settings = part.settings
      /\ done.columns = part.columns \ {"risk_types"}
      /\ done.nullable = part.nullable \ {"risk_types"}
      /\ done.rows = [i \in DOMAIN part.rows |-> Without(part.rows[i], "risk_types")]
  BY <1>7, DropColumnIs
<1>9. /\ IsDatabase(e) /\ e.version = 1 /\ e.settings = done.settings
      /\ e.columns = done.columns /\ e.nullable = done.nullable /\ e.rows = done.rows
  BY <1>8, StampIs
<1> HIDE DEF half, added, restored, strict, part, done, e
<1>10. e.columns = Columns001 /\ e.nullable = {"operational_unit"} /\ e.settings = d.settings
  BY <1>1, <1>3, <1>4, <1>5, <1>6, <1>7, <1>8, <1>9 DEF Shape2, Columns001, Columns002
<1>11. restored.rows = [i \in DOMAIN d.rows |-> Restored(d.rows[i])]
  <2>1. added.rows = [i \in DOMAIN d.rows |->
                        Extend(Extend(d.rows[i], "risk_type", Null), "operational_unit", Null)]
    BY <1>3, <1>4
  <2> QED
    BY <2>1, <1>5 DEF Restored
<1>12. e.rows = [i \in DOMAIN d.rows |->
                   Without(Without(Restored(d.rows[i]), "network_id"), "risk_types")]
  BY <1>6, <1>7, <1>8, <1>9, <1>11
<1>13. \A i \in DOMAIN d.rows : Row2(d.rows[i]) /\ Restored(d.rows[i])["risk_type"] # Null
  BY <1>1, <1>2, <1>11 DEF Shape2, HasNull
<1>14. Shape1(e) /\ Keeps(d, e)
  BY <1>9, <1>10, <1>12, <1>13, Row001Is DEF Shape1, Keeps
<1> QED
  BY <1>1, <1>2, <1>9, <1>10, <1>12, <1>14 DEF DatabaseOK

-----------------------------------------------------------------------------
(* alembic, and create_all                                                 *)

(* A database nothing has touched.                                         *)
LEMMA EmptyDatabaseIs == DatabaseOK(EmptyDatabase) /\ EmptyDatabase.version = 0
<1> DEFINE e == EmptyDatabase
<1>1. e.version = 0 /\ e.columns = {} /\ e.nullable = {}
  BY DEF EmptyDatabase
<1>2. e.rows = <<>>
  BY DEF EmptyDatabase
<1>3. DOMAIN e.rows = {}
  BY <1>2
<1>4. e.settings \in BOOLEAN
  <2>1. [version |-> 0, columns |-> {}, nullable |-> {}, rows |-> <<>>, settings |-> FALSE].settings
           = FALSE
    OBVIOUS
  <2>2. EmptyDatabase.settings = FALSE
    BY <2>1, Zenon DEF EmptyDatabase
  <2> QED
    BY <2>2, Zenon DEF e
<1>5. e = [f \in {"version", "columns", "nullable", "rows", "settings"} |-> e[f]]
  BY Zenon DEF EmptyDatabase
<1> HIDE DEF e
<1>6. Empty(e) /\ IsDatabase(e)
  BY <1>1, <1>3, <1>4, <1>5 DEF Empty, IsDatabase
<1> QED
  BY <1>1, <1>3, <1>6 DEF DatabaseOK, e

(* The revisions there are.                                                *)
LEMMA Versions ==
    ASSUME NEW d, DatabaseOK(d)
    PROVE  d.version \in 0 .. 3
  BY DEF DatabaseOK, Empty, Shape1, Shape2, Shape3

(* alembic upgrade head, from any revision: each step carries the rules.   *)
LEMMA UpgradeHeadIs ==
    ASSUME NEW d, DatabaseOK(d), UpgradeHead(d) # Failed
    PROVE  LET e == UpgradeHead(d)
           IN  /\ DatabaseOK(e) /\ e.version = 3
               /\ Carries(d, e)
               /\ d.version > 1 => SameNetworks(d, e)
<1> DEFINE at1 == IF d.version = 0 THEN Upgrade001(d) ELSE d
           at2 == IF at1 # Failed /\ at1.version = 1 THEN Upgrade002(at1) ELSE at1
           e   == IF at2 # Failed /\ at2.version = 2 THEN Upgrade003(at2) ELSE at2
<1>1. UpgradeHead(d) = e
  BY Zenon DEF UpgradeHead
<1>2. d.version \in 0 .. 3
  BY Versions
<1> HIDE DEF e
<1>3. at2 # Failed
  BY <1>1 DEF e
<1> HIDE DEF at2
<1>4. at1 # Failed
  BY <1>3 DEF at2
<1>5. /\ DatabaseOK(at1) /\ at1.version \in 1 .. 3 /\ Carries(d, at1)
      /\ d.version > 1 => at1 = d
  <2>1. CASE d.version = 0
    <3>1. at1 = Upgrade001(d) /\ Upgrade001(d) # Failed
      BY <2>1, <1>4
    <3> HIDE DEF at1
    <3>2. DatabaseOK(at1) /\ Shape1(at1) /\ DOMAIN d.rows = {} /\ DOMAIN at1.rows = {}
      BY <2>1, <3>1, Upgrade001Is
    <3> QED
      BY <2>1, <3>2 DEF Shape1, Carries
  <2>2. CASE d.version # 0
    <3>1. at1 = d
      BY <2>2
    <3> HIDE DEF at1
    <3> QED
      BY <1>2, <2>2, <3>1 DEF Carries
  <2> QED
    BY <2>1, <2>2
<1> HIDE DEF at1
<1>6. /\ DatabaseOK(at2) /\ at2.version \in 2 .. 3 /\ Carries(at1, at2)
      /\ at1.version > 1 => at2 = at1
  <2>1. CASE at1.version = 1
    <3>1. at2 = Upgrade002(at1)
      BY <2>1, <1>4 DEF at2
    <3>2. DatabaseOK(at2) /\ Shape2(at2) /\ Carries(at1, at2)
      BY <2>1, <3>1, <1>3, <1>5, Upgrade002Is
    <3> QED
      BY <2>1, <3>2 DEF Shape2
  <2>2. CASE at1.version # 1
    <3>1. at2 = at1
      BY <2>2 DEF at2
    <3> QED
      BY <1>5, <2>2, <3>1 DEF Carries
  <2> QED
    BY <2>1, <2>2
<1>7. DatabaseOK(e) /\ e.version = 3 /\ Carries(at2, e) /\ SameNetworks(at2, e)
  <2>1. CASE at2.version = 2
    <3>1. e = Upgrade003(at2)
      BY <2>1, <1>3 DEF e
    <3> QED
      BY <2>1, <3>1, <1>6, Upgrade003Is
  <2>2. CASE at2.version = 3
    <3>1. e = at2
      BY <2>2 DEF e
    <3> QED
      BY <1>6, <2>2, <3>1 DEF Carries, SameNetworks
  <2> QED
    BY <1>6, <2>1, <2>2
<1>8. Carries(d, e)
  BY <1>5, <1>6, <1>7 DEF Carries
<1>9. d.version > 1 => SameNetworks(d, e)
  BY <1>2, <1>5, <1>6, <1>7
<1> QED
  BY <1>1, <1>7, <1>8, <1>9

(* alembic downgrade -1: the rules stay, unless the table goes.            *)
LEMMA DowngradeOneIs ==
    ASSUME NEW d, DatabaseOK(d), DowngradeOne(d) # Failed
    PROVE  LET e == DowngradeOne(d)
           IN  /\ DatabaseOK(e)
               /\ e.version # 0 => e.version < d.version /\ Keeps(d, e)
               /\ e.version > 1 => SameNetworks(d, e)
<1> DEFINE e == DowngradeOne(d)
<1>1. d.version \in 1 .. 3
  BY Versions DEF DowngradeOne
<1>2. CASE d.version = 1
  <2>1. e = EmptyDatabase
    BY <1>2 DEF DowngradeOne, Downgrade001
  <2> HIDE DEF e
  <2>2. DatabaseOK(e) /\ e.version = 0
    BY <2>1, EmptyDatabaseIs
  <2> QED
    BY <2>2 DEF e
<1>3. CASE d.version = 2
  <2>1. e = Downgrade002(d)
    BY <1>3 DEF DowngradeOne
  <2> HIDE DEF e
  <2>2. DatabaseOK(e) /\ Shape1(e) /\ Keeps(d, e)
    BY <1>3, <2>1, Downgrade002Is DEF e
  <2> QED
    BY <1>3, <2>2 DEF e, Shape1
<1>4. CASE d.version = 3
  <2>1. e = Downgrade003(d)
    BY <1>4 DEF DowngradeOne
  <2> HIDE DEF e
  <2>2. DatabaseOK(e) /\ Shape2(e) /\ Keeps(d, e) /\ SameNetworks(d, e)
    BY <1>4, <2>1, Downgrade003Is
  <2> QED
    BY <1>4, <2>2 DEF e, Shape2
<1> QED
  BY <1>1, <1>2, <1>3, <1>4

(* What create_all makes of a database: the tables, and no revision.       *)
LEMMA CreateAllIs ==
    ASSUME NEW d, DatabaseOK(d)
    PROVE  LET e == CreateAll(d)
           IN  /\ DatabaseOK(e) /\ HasRules(e) /\ e.settings
               /\ e.version = d.version
<1> DEFINE yes     == TRUE
           columns == IF HasRules(d) THEN d.columns ELSE ModelColumns
           mid     == [d EXCEPT !.columns = columns]
           e       == [mid EXCEPT !.settings = yes]
<1>1. CreateAll(d) = e
  BY Zenon DEF CreateAll
<1>2. yes \in BOOLEAN /\ yes
  OBVIOUS
<1> HIDE DEF yes
<1>3. /\ IsDatabase(mid) /\ mid.version = d.version /\ mid.columns = columns
      /\ mid.nullable = d.nullable /\ mid.rows = d.rows
  BY DEF IsDatabase, DatabaseOK
<1> HIDE DEF mid
<1>4. /\ IsDatabase(e) /\ e.version = d.version /\ e.columns = columns
      /\ e.nullable = d.nullable /\ e.rows = d.rows /\ e.settings = yes
  BY <1>2, <1>3 DEF IsDatabase
<1> HIDE DEF e
<1>5. HasRules(e)
  BY <1>4 DEF HasRules, ModelColumns
<1>6. Empty(e) \/ Shape1(e) \/ Shape2(e) \/ Shape3(e)
  <2>1. CASE Empty(d)
    BY <2>1, <1>4 DEF Empty, Shape3, HasRules
  <2>2. CASE Shape1(d)
    BY <2>2, <1>4 DEF Shape1, Columns001, HasRules
  <2>3. CASE Shape2(d)
    BY <2>3, <1>4 DEF Shape2, Columns002, HasRules
  <2>4. CASE Shape3(d)
    BY <2>4, <1>4 DEF Shape3, ModelColumns, HasRules
  <2> QED
    BY <2>1, <2>2, <2>3, <2>4 DEF DatabaseOK
<1>7. e.settings
  BY <1>2, <1>4
<1>8. DatabaseOK(e)
  BY <1>4, <1>6 DEF DatabaseOK
<1> QED
  BY <1>1, <1>4, <1>5, <1>7, <1>8

-----------------------------------------------------------------------------
(* Rules filed, changed and deleted                                        *)

(* An INSERT or UPDATE of one row leaves the others alone.                 *)
LEMMA StoreIs ==
    ASSUME IsDatabase(db), NEW i, NEW row
    PROVE  LET e == Store(i, row)
           IN  /\ IsDatabase(e)
               /\ e.version = db.version /\ e.settings = db.settings
               /\ e.columns = db.columns /\ e.nullable = db.nullable
               /\ DOMAIN e.rows = DOMAIN db.rows \cup {i}
               /\ e.rows[i] = row
               /\ \A j \in DOMAIN db.rows : j # i => e.rows[j] = db.rows[j]
<1> DEFINE rows == Extend(db.rows, i, row)
           e    == [db EXCEPT !.rows = rows]
<1>1. Store(i, row) = e
  BY DEF Store
<1>2. /\ DOMAIN rows = DOMAIN db.rows \cup {i} /\ rows[i] = row
      /\ \A j \in DOMAIN db.rows : j # i => rows[j] = db.rows[j]
  BY DEF Extend
<1> HIDE DEF rows
<1>3. /\ IsDatabase(e) /\ e.version = db.version /\ e.settings = db.settings
      /\ e.columns = db.columns /\ e.nullable = db.nullable /\ e.rows = rows
  BY DEF IsDatabase
<1> HIDE DEF e
<1> QED
  BY <1>1, <1>2, <1>3

(* The tables keep their columns and their revision.                       *)
SameSchema == /\ db'.version = db.version /\ db'.columns = db.columns
              /\ db'.settings = db.settings

(* A POST stores a row of the head's shape: the service names every column. *)
LEMMA ServiceFilesIs ==
    ASSUME DatabaseOK(db), NEW i \in RuleIds, ServiceFiles(i)
    PROVE  DatabaseOK(db') /\ SameSchema
<1>1. IsDatabase(db) /\ Shape3(db) /\ DOMAIN db.rows \subseteq RuleIds
  BY DEF DatabaseOK, Empty, Shape1, Shape2, ServiceFiles, Insertable, ModelColumns, Columns001, Columns002
<1> DEFINE no == FALSE
           row(k, vs, n) == [c \in ModelColumns |->
                  CASE c = "kept" -> k [] c = "risk_types" -> vs
                    [] c = "network_id" -> n [] OTHER -> no]
<1>2. no \in BOOLEAN /\ ~no
  OBVIOUS
<1>3. \E k \in Kept, vs \in HazardLists, n \in Networks : db' = Store(i, row(k, vs, n))
  BY Zenon DEF ServiceFiles
<1> HIDE DEF no
<1>4. PICK k \in Kept, vs \in HazardLists, n \in Networks : db' = Store(i, row(k, vs, n))
  BY <1>3
<1>5. Row3(row(k, vs, n))
  BY <1>2, MigrationsAssumption DEF Row3, ModelColumns
<1> HIDE DEF row
<1>6. /\ IsDatabase(db')
      /\ db'.version = db.version /\ db'.settings = db.settings
      /\ db'.columns = db.columns /\ db'.nullable = db.nullable
      /\ DOMAIN db'.rows = DOMAIN db.rows \cup {i}
      /\ db'.rows[i] = row(k, vs, n)
      /\ \A j \in DOMAIN db.rows : j # i => db'.rows[j] = db.rows[j]
  BY <1>1, <1>4, StoreIs
<1>7. Shape3(db')
  BY <1>1, <1>5, <1>6 DEF Shape3
<1> QED
  BY <1>1, <1>6, <1>7 DEF DatabaseOK, SameSchema

(* A PATCH keeps the shape, be its hazards a JSON null.                    *)
LEMMA ServiceUpdatesIs ==
    ASSUME DatabaseOK(db), NEW i \in RuleIds, ServiceUpdates(i)
    PROVE  DatabaseOK(db') /\ SameSchema
<1>1. IsDatabase(db) /\ Shape3(db) /\ DOMAIN db.rows \subseteq RuleIds /\ i \in DOMAIN db.rows
  BY DEF DatabaseOK, Empty, Shape1, Shape2, ServiceUpdates, Insertable, ModelColumns, Columns001, Columns002
<1>2. PICK vs \in HazardLists \cup {JsonNull} :
        db' = Store(i, [db.rows[i] EXCEPT !["risk_types"] = vs])
  BY DEF ServiceUpdates
<1> DEFINE row == [db.rows[i] EXCEPT !["risk_types"] = vs]
<1>3. Row3(row)
  <2>1. Row3(db.rows[i])
    BY <1>1 DEF Shape3
  <2>2. /\ DOMAIN row = ModelColumns /\ row["kept"] = db.rows[i]["kept"]
        /\ row["risk_types"] = vs /\ row["network_id"] = db.rows[i]["network_id"]
        /\ row["network_id_unset"] = db.rows[i]["network_id_unset"]
    BY <2>1 DEF Row3, ModelColumns
  <2> HIDE DEF row
  <2> QED
    BY <2>1, <2>2 DEF Row3
<1> HIDE DEF row
<1>4. /\ IsDatabase(db')
      /\ db'.version = db.version /\ db'.settings = db.settings
      /\ db'.columns = db.columns /\ db'.nullable = db.nullable
      /\ DOMAIN db'.rows = DOMAIN db.rows \cup {i}
      /\ db'.rows[i] = row
      /\ \A j \in DOMAIN db.rows : j # i => db'.rows[j] = db.rows[j]
  BY <1>1, <1>2, StoreIs DEF row
<1>5. Shape3(db')
  BY <1>1, <1>3, <1>4 DEF Shape3
<1> QED
  BY <1>1, <1>4, <1>5 DEF DatabaseOK, SameSchema

(* A DELETE keeps the shape of the rows that stay.                         *)
LEMMA ServiceDeletesIs ==
    ASSUME DatabaseOK(db), NEW i \in RuleIds, ServiceDeletes(i)
    PROVE  DatabaseOK(db') /\ SameSchema
<1>1. IsDatabase(db) /\ Shape3(db) /\ DOMAIN db.rows \subseteq RuleIds
  BY DEF DatabaseOK, Empty, Shape1, Shape2, ServiceDeletes, Insertable, ModelColumns, Columns001, Columns002
<1> DEFINE rows == Without(db.rows, i)
<1>2. db' = [db EXCEPT !.rows = rows]
  BY DEF ServiceDeletes
<1>3. DOMAIN rows \subseteq DOMAIN db.rows /\ \A j \in DOMAIN rows : rows[j] = db.rows[j]
  BY DEF Without
<1> HIDE DEF rows
<1>4. /\ IsDatabase(db')
      /\ db'.version = db.version /\ db'.settings = db.settings
      /\ db'.columns = db.columns /\ db'.nullable = db.nullable /\ db'.rows = rows
  BY <1>1, <1>2 DEF IsDatabase
<1>5. Shape3(db')
  BY <1>1, <1>3, <1>4 DEF Shape3
<1> QED
  BY <1>1, <1>3, <1>4, <1>5 DEF DatabaseOK, SameSchema

(* A rule of an older release has the shape of its revision.               *)
LEMMA OlderReleaseFilesIs ==
    ASSUME DatabaseOK(db), NEW i \in RuleIds, OlderReleaseFiles(i)
    PROVE  DatabaseOK(db') /\ SameSchema
<1>1. IsDatabase(db) /\ DOMAIN db.rows \subseteq RuleIds
  BY DEF DatabaseOK
<1>2. ASSUME NEW row, db' = Store(i, row),
             \/ db.version = 1 /\ Row1(row)
             \/ db.version = 2 /\ Row2(row)
      PROVE  DatabaseOK(db') /\ SameSchema
  <2>1. /\ IsDatabase(db')
        /\ db'.version = db.version /\ db'.settings = db.settings
        /\ db'.columns = db.columns /\ db'.nullable = db.nullable
        /\ DOMAIN db'.rows = DOMAIN db.rows \cup {i}
        /\ db'.rows[i] = row
        /\ \A j \in DOMAIN db.rows : j # i => db'.rows[j] = db.rows[j]
    BY <1>1, <1>2, StoreIs
  <2>2. CASE db.version = 1
    <3>1. Shape1(db) /\ Row1(row)
      BY <1>2, <2>2 DEF DatabaseOK, Empty, Shape2, Shape3
    <3>2. Shape1(db')
      BY <2>1, <3>1 DEF Shape1
    <3> QED
      BY <1>1, <2>1, <3>2 DEF DatabaseOK, SameSchema
  <2>3. CASE db.version = 2
    <3>1. Shape2(db) /\ Row2(row)
      BY <1>2, <2>3 DEF DatabaseOK, Empty, Shape1, Shape3
    <3>2. Shape2(db')
      BY <2>1, <3>1 DEF Shape2
    <3> QED
      BY <1>1, <2>1, <3>2 DEF DatabaseOK, SameSchema
  <2> QED
    BY <1>2, <2>2, <2>3
<1>3. CASE /\ db.version = 1
           /\ \E k \in Kept, v \in Hazards, u \in Units \cup {Null} :
                db' = Store(i, [c \in Columns001 |->
                         CASE c = "kept" -> k [] c = "risk_type" -> v [] OTHER -> u])
  <2> DEFINE row(k, v, u) ==
        [c \in Columns001 |-> CASE c = "kept" -> k [] c = "risk_type" -> v [] OTHER -> u]
  <2>1. PICK k \in Kept, v \in Hazards, u \in Units \cup {Null} : db' = Store(i, row(k, v, u))
    BY <1>3
  <2>2. Row1(row(k, v, u))
    BY DEF Row1, Columns001
  <2> HIDE DEF row
  <2> QED
    BY <1>2, <1>3, <2>1, <2>2
<1>4. CASE /\ db.version = 2
           /\ \E k \in Kept, vs \in HazardLists, n \in Networks :
                db' = Store(i, [c \in {"kept", "risk_types", "network_id"} |->
                         CASE c = "kept" -> k [] c = "risk_types" -> vs [] OTHER -> n])
  <2> DEFINE row(k, vs, n) ==
        [c \in {"kept", "risk_types", "network_id"} |->
            CASE c = "kept" -> k [] c = "risk_types" -> vs [] OTHER -> n]
  <2>1. PICK k \in Kept, vs \in HazardLists, n \in Networks : db' = Store(i, row(k, vs, n))
    BY <1>4
  <2>2. Row2(row(k, vs, n))
    BY DEF Row2, Columns002
  <2> HIDE DEF row
  <2> QED
    BY <1>2, <1>4, <2>1, <2>2
<1> QED
  BY <1>3, <1>4 DEF OlderReleaseFiles

-----------------------------------------------------------------------------
(* The inductive invariant                                                 *)

ServiceOK ==
    /\ cfg \in Configs
    /\ stage \in Down \cup Starting \cup {"serving"}
    /\ link \in {"none", "connected", "subscribed"}
    /\ clients \subseteq {"nudging", "digital_twin"}

(* What the startup has behind it, wherever it stands.                     *)
StartupOK ==
    /\ stage = "posture" => link = "none" /\ clients = {}
    /\ stage \notin Down \cup {"posture"} => cfg.dev \/ Violations = {}
    /\ stage \in (Starting \ {"posture", "database"}) \cup {"serving"} =>
         HasRules(db) /\ db.settings
    /\ stage \in {"connecting", "subscribing", "abandoning", "serving"} => "nudging" \in clients
    /\ stage = "serving" => link \in {"none", "subscribed"}
    /\ link = "subscribed" => stage = "serving"

IInv == DatabaseOK(db) /\ ServiceOK /\ StartupOK

(* A step of the schema, and what it keeps of the rules.                   *)
SchemaStep ==
    (db'.version # db.version /\ db'.version # 0) =>
        \/ db.version < db'.version /\ Carries(db, db') /\ (db.version > 1 => SameNetworks(db, db'))
        \/ db.version > db'.version /\ Keeps(db, db') /\ (db'.version > 1 => SameNetworks(db, db'))

(* Whatever writes to the database leaves a database of one of the shapes; *)
(* a service that is past its init_db keeps its tables.                    *)
LEMMA DatabaseStep ==
    ASSUME IInv, [Next]_vars
    PROVE  /\ DatabaseOK(db')
           /\ SchemaStep
           /\ stage \in Down \/ (HasRules(db) /\ db.settings => HasRules(db') /\ db'.settings)
<1> USE DEF IInv
<1>1. CASE UNCHANGED db
  BY <1>1 DEF SchemaStep, HasRules
<1>2. CASE AlembicUpgrade
  <2>1. UpgradeHead(db) # Failed /\ db' = UpgradeHead(db) /\ stage \in Down
    BY <1>2 DEF AlembicUpgrade
  <2>2. /\ DatabaseOK(db') /\ db'.version = 3 /\ Carries(db, db')
        /\ db.version > 1 => SameNetworks(db, db')
    BY <2>1, UpgradeHeadIs
  <2>3. db.version \in 0 .. 3
    BY Versions
  <2> QED
    BY <2>1, <2>2, <2>3 DEF SchemaStep
<1>3. CASE AlembicDowngrade
  <2>1. DowngradeOne(db) # Failed /\ db' = DowngradeOne(db) /\ stage \in Down
    BY <1>3 DEF AlembicDowngrade
  <2>2. /\ DatabaseOK(db')
        /\ db'.version # 0 => db'.version < db.version /\ Keeps(db, db')
        /\ db'.version > 1 => SameNetworks(db, db')
    BY <2>1, DowngradeOneIs
  <2>3. db.version \in 0 .. 3 /\ db'.version \in 0 .. 3
    BY <2>2, Versions
  <2> QED
    BY <2>1, <2>2, <2>3 DEF SchemaStep
<1>4. CASE OlderReleaseUpgrades
  <2>1. Upgrade001(db) # Failed /\ db' = Upgrade001(db) /\ stage \in Down /\ db.version = 0
    BY <1>4 DEF OlderReleaseUpgrades
  <2>2. /\ DatabaseOK(db') /\ Shape1(db') /\ DOMAIN db.rows = {} /\ DOMAIN db'.rows = {}
    BY <2>1, Upgrade001Is
  <2> QED
    BY <2>1, <2>2 DEF SchemaStep, Shape1, Carries
<1>5. ASSUME NEW i \in RuleIds,
             OlderReleaseFiles(i) \/ ServiceFiles(i) \/ ServiceUpdates(i) \/ ServiceDeletes(i)
      PROVE  /\ DatabaseOK(db')
             /\ SchemaStep
             /\ HasRules(db) /\ db.settings => HasRules(db') /\ db'.settings
  <2>1. DatabaseOK(db') /\ SameSchema
    BY <1>5, OlderReleaseFilesIs, ServiceFilesIs, ServiceUpdatesIs, ServiceDeletesIs
  <2> QED
    BY <2>1 DEF SameSchema, SchemaStep, HasRules
<1>6. CASE ServiceInitDb
  <2>1. db' = CreateAll(db)
    BY <1>6 DEF ServiceInitDb
  <2>2. DatabaseOK(db') /\ HasRules(db') /\ db'.settings /\ db'.version = db.version
    BY <2>1, CreateAllIs
  <2> QED
    BY <2>2 DEF SchemaStep
<1>7. CASE UNCHANGED vars
  BY <1>1, <1>7 DEF vars
<1> QED
  BY <1>1, <1>2, <1>3, <1>4, <1>5, <1>6, <1>7 DEF Next, Startup

(* Nothing has been done to the database, and nothing runs.                *)
LEMMA Initially == Init => IInv
<1> SUFFICES ASSUME Init PROVE IInv
  OBVIOUS
<1>1. DatabaseOK(db)
  BY EmptyDatabaseIs DEF Init
<1>2. ServiceOK /\ StartupOK
  BY DEF Init, LifespanInit, ServiceOK, StartupOK, Down, Starting
<1> QED
  BY <1>1, <1>2 DEF IInv

(* The steps of the lifespan, for what a service that is up relies on.     *)
LEMMA ServiceStep ==
    ASSUME IInv, [Next]_vars
    PROVE  ServiceOK' /\ StartupOK'
<1>1. /\ ServiceOK /\ StartupOK
      /\ stage \in Down \/ (HasRules(db) /\ db.settings => HasRules(db') /\ db'.settings)
  BY DatabaseStep DEF IInv
<1> DEFINE Tables  == HasRules(db) /\ db.settings
           Posture == cfg.dev \/ Violations = {}
<1>2. CASE UNCHANGED service
  <2>1. Posture' <=> Posture
    BY <1>2 DEF service, Violations
  <2>2. stage \notin Down => (Tables => Tables')
    BY <1>1
  <2> HIDE DEF Posture, Tables
  <2> QED
    BY <1>1, <1>2, <2>1, <2>2 DEF service, ServiceOK, StartupOK, Down, Starting, Posture, Tables
<1>3. CASE Start
  BY <1>1, <1>3 DEF Start, ServiceOK, StartupOK, Down, Starting
<1>4. CASE Shutdown \/ Crash
  BY <1>1, <1>4 DEF Shutdown, Crash, ServiceOK, StartupOK, Down, Starting
<1>5. CASE EnforcePosture
  <2>1. stage' = "refused" \/ (stage' = "database" /\ Posture)
    BY <1>5 DEF EnforcePosture
  <2>2. Posture' <=> Posture
    BY <1>5 DEF EnforcePosture, Violations
  <2> HIDE DEF Posture
  <2> QED
    BY <1>1, <1>5, <2>1, <2>2 DEF EnforcePosture, ServiceOK, StartupOK, Down, Starting, Posture
<1>6. CASE ServiceInitDb
  <2>1. HasRules(db') /\ db'.settings
    BY <1>6, CreateAllIs DEF ServiceInitDb, IInv
  <2>2. Posture' <=> Posture
    BY <1>6 DEF ServiceInitDb, InitDb, Violations
  <2> HIDE DEF Posture
  <2> QED
    BY <1>1, <1>6, <2>1, <2>2 DEF ServiceInitDb, InitDb, ServiceOK, StartupOK, Down, Starting, Posture
<1>7. CASE /\ \/ InitDbFails \/ CreateBroker \/ Connect \/ ConnectFails \/ ConnectTimesOut
              \/ Subscribe \/ SubscribeFails \/ Abandon \/ AbandonRaises
           /\ UNCHANGED db
  <2>1. Posture' <=> Posture
    BY <1>7 DEF InitDbFails, CreateBroker, Connect, ConnectFails, ConnectTimesOut, Subscribe,
                SubscribeFails, Abandon, AbandonRaises, Violations
  <2>2. Tables' <=> Tables
    BY <1>7 DEF HasRules
  <2> HIDE DEF Posture, Tables
  <2>3. StartupOK <=>
          /\ stage = "posture" => link = "none" /\ clients = {}
          /\ stage \notin Down \cup {"posture"} => Posture
          /\ stage \in (Starting \ {"posture", "database"}) \cup {"serving"} => Tables
          /\ stage \in {"connecting", "subscribing", "abandoning", "serving"} => "nudging" \in clients
          /\ stage = "serving" => link \in {"none", "subscribed"}
          /\ link = "subscribed" => stage = "serving"
    BY DEF StartupOK, Posture, Tables
  <2>4. StartupOK' <=>
          /\ stage' = "posture" => link' = "none" /\ clients' = {}
          /\ stage' \notin Down \cup {"posture"} => Posture'
          /\ stage' \in (Starting \ {"posture", "database"}) \cup {"serving"} => Tables'
          /\ stage' \in {"connecting", "subscribing", "abandoning", "serving"} => "nudging" \in clients'
          /\ stage' = "serving" => link' \in {"none", "subscribed"}
          /\ link' = "subscribed" => stage' = "serving"
    BY DEF StartupOK, Posture, Tables, Down, Starting
  <2> QED
    BY <1>1, <1>7, <2>1, <2>2, <2>3, <2>4
       DEF InitDbFails, CreateBroker, Connect, ConnectFails, ConnectTimesOut, Subscribe,
           SubscribeFails, Abandon, AbandonRaises, ServiceOK, Down, Starting
<1> QED
  BY <1>2, <1>3, <1>4, <1>5, <1>6, <1>7
     DEF Next, Startup, StartupStep, AlembicUpgrade, AlembicDowngrade, OlderReleaseUpgrades,
         OlderReleaseFiles, ServiceFiles, ServiceUpdates, ServiceDeletes, vars, service

(* The inductive invariant: the database has the shape of its revision,    *)
(* and the startup what it has been through.                               *)
THEOREM Invariance == Spec => []IInv
<1>1. IInv /\ [Next]_vars => IInv'
  BY DatabaseStep, ServiceStep DEF IInv
<1> QED
  BY <1>1, Initially, PTL DEF Spec


-----------------------------------------------------------------------------
(* The theorems                                                            *)

(* TypeOK: every cell of the table holds a value of its column's type, or  *)
(* NULL where the column may, after any history of revisions.              *)
THEOREM TypeCorrectness == Spec => []TypeOK
<1>1. ASSUME IInv PROVE TypeOK
  <2>1. db.version \in 0 .. 3 /\ db.settings \in BOOLEAN /\ DOMAIN db.rows \subseteq RuleIds
    BY <1>1, Versions DEF IInv, DatabaseOK, IsDatabase
  <2>2. ASSUME NEW i \in DOMAIN db.rows
        PROVE  /\ DOMAIN db.rows[i] = db.columns
               /\ \A c \in db.columns :
                    db.rows[i][c] \in Values(c) \/ (c \in db.nullable /\ db.rows[i][c] = Null)
    <3>1. CASE Shape1(db)
      BY <2>2, <3>1 DEF Shape1, Row1, Columns001, Values
    <3>2. CASE Shape2(db)
      BY <2>2, <3>2 DEF Shape2, Row2, Columns002, Values
    <3>3. CASE Shape3(db)
      BY <2>2, <3>3 DEF Shape3, Row3, ModelColumns, Values
    <3> QED
      BY <1>1, <2>2, <3>1, <3>2, <3>3 DEF IInv, DatabaseOK, Empty
  <2> QED
    BY <1>1, <2>1, <2>2 DEF IInv, ServiceOK, TypeOK
<1> QED
  BY <1>1, Invariance, PTL

(* SchemaMatchesModel: the migrations and create_all make the same table,  *)
(* whatever was downgraded on the way.                                     *)
THEOREM SchemaIsTheModels == Spec => []SchemaMatchesModel
<1>1. IInv => SchemaMatchesModel
  BY DEF IInv, DatabaseOK, Empty, Shape1, Shape2, Shape3, HasRules, SchemaMatchesModel
<1> QED
  BY <1>1, Invariance, PTL

(* FlagMarksUnattributed: the flag of 003 marks the rules without network. *)
THEOREM FlagIsTheNetworks == Spec => []FlagMarksUnattributed
<1>1. IInv => FlagMarksUnattributed
  BY DEF IInv, DatabaseOK, Empty, Shape1, Shape2, Shape3, Row3, Columns001, Columns002,
         FlagMarksUnattributed
<1> QED
  BY <1>1, Invariance, PTL

(* ListensOrLetsGo: whatever the broker does, a service that is up listens *)
(* with what a delivery needs, or is not connected.                        *)
THEOREM ServesSoundly == Spec => []ListensOrLetsGo
<1>1. ASSUME IInv PROVE ListensOrLetsGo
  <2>1. StartupOK
    BY <1>1 DEF IInv
  <2>2. stage = "serving" => "nudging" \in clients /\ HasRules(db) /\ db.settings
    BY <2>1 DEF StartupOK
  <2>3. stage = "serving" => link \in {"none", "subscribed"}
    BY <2>1 DEF StartupOK
  <2>4. link = "subscribed" => stage = "serving"
    BY <2>1 DEF StartupOK
  <2> QED
    BY <2>2, <2>3, <2>4 DEF ListensOrLetsGo
<1> QED
  BY <1>1, Invariance, PTL

(* InsecureTouchesNothing: a process whose posture is refused has no side  *)
(* effect, under any configuration.                                        *)
THEOREM PostureComesFirst == Spec => InsecureTouchesNothing
<1> DEFINE Insecure == /\ ~cfg.dev
                       /\ \/ cfg.dev_database \/ cfg.secret_is_client_id
                          \/ ~cfg.explicit_oidc \/ ~cfg.policy_loaded
<1>1. ASSUME IInv, [Next]_vars, stage \notin Down, Insecure
      PROVE  UNCHANGED <<db, link, clients>>
  <2>1. Violations # {}
    BY <1>1 DEF Violations
  <2>2. stage = "posture" /\ link = "none" /\ clients = {}
    BY <1>1, <2>1 DEF IInv, StartupOK
  <2> QED
    BY <1>1, <2>2
       DEF Next, Startup, StartupStep, Start, Shutdown, Crash, EnforcePosture, InitDbFails,
           CreateBroker, Connect, ConnectFails, ConnectTimesOut, Subscribe, SubscribeFails, Abandon,
           AbandonRaises,
           ServiceInitDb, InitDb, AlembicUpgrade, AlembicDowngrade, OlderReleaseUpgrades,
           OlderReleaseFiles, ServiceFiles, ServiceUpdates, ServiceDeletes, vars, service, Down
<1> QED
  BY <1>1, Invariance, PTL DEF Spec, InsecureTouchesNothing

(* MigrationsKeepRules: no sequence of revisions loses a rule, changes its *)
(* owner, or makes it watch what it did not.                               *)
THEOREM RulesSurviveMigrations == Spec => MigrationsKeepRules
<1>1. ASSUME IInv, [Next]_vars, db'.version # db.version, db'.version # 0
      PROVE  /\ DOMAIN db'.rows = DOMAIN db.rows
             /\ \A i \in DOMAIN db.rows :
                  /\ db'.rows[i]["kept"] = db.rows[i]["kept"]
                  /\ Watched(db'.rows[i]) \subseteq Watched(db.rows[i])
                  /\ db'.version > db.version => Watched(db'.rows[i]) = Watched(db.rows[i])
                  /\ db'.version > 1 /\ db.version > 1 =>
                       db'.rows[i]["network_id"] = db.rows[i]["network_id"]
  <2>1. db.version \in 0 .. 3 /\ db'.version \in 0 .. 3
    BY <1>1, DatabaseStep, Versions DEF IInv
  <2>2. SchemaStep
    BY <1>1, DatabaseStep
  <2>3. CASE db.version < db'.version /\ Carries(db, db') /\ (db.version > 1 => SameNetworks(db, db'))
    BY <2>1, <2>3 DEF Carries, SameNetworks
  <2>4. CASE db.version > db'.version /\ Keeps(db, db') /\ (db'.version > 1 => SameNetworks(db, db'))
    BY <2>1, <2>4 DEF Keeps, SameNetworks
  <2> QED
    BY <1>1, <2>2, <2>3, <2>4 DEF SchemaStep
<1> QED
  BY <1>1, Invariance, PTL DEF Spec, MigrationsKeepRules


-----------------------------------------------------------------------------
(* A startup gets on                                                       *)

(* How many more steps of its own a startup may take at that stage.        *)
StagesLeft(at) ==
    CASE at = "posture"     -> 6
      [] at = "database"    -> 5
      [] at = "broker"      -> 4
      [] at = "connecting"  -> 3
      [] at = "subscribing" -> 2
      [] at = "abandoning"  -> 1
      [] OTHER              -> 0

(* While a process starts, the migrations and the endpoints leave it where *)
(* it is; a step of its own shortens the way; and once it has reached the  *)
(* broker, the way ends up, unless the process dies or the disconnect of   *)
(* a failed start raises.                                                  *)
StartGetsOn ==
    /\ stage \in Starting /\ stage' # stage /\ stage' # "stopped" =>
         StagesLeft(stage') < StagesLeft(stage)
    /\ Startup => stage \in Starting /\ StagesLeft(stage') < StagesLeft(stage)
    /\ stage \in {"connecting", "subscribing", "abandoning"} =>
         stage' \in {"connecting", "subscribing", "abandoning"}
                      \cup {"serving", "stopped", "abandoned"}

(* Only the startup itself and a crash move a process that is starting.    *)
LEMMA StartMoves ==
    ASSUME stage \in Starting, [Next]_vars
    PROVE  stage' = stage \/ stage' = "stopped" \/ Startup
BY DEF Next, Start, Shutdown, Crash, AlembicUpgrade, AlembicDowngrade, OlderReleaseUpgrades,
       OlderReleaseFiles, ServiceFiles, ServiceUpdates, ServiceDeletes, vars, service, Down,
       Starting

(* Where a step of the startup leads.                                      *)
LEMMA StartupLeads ==
    ASSUME Startup
    PROVE  \/ stage = "posture"     /\ stage' \in {"database", "refused"}
           \/ stage = "database"    /\ stage' \in {"broker", "refused"}
           \/ stage = "broker"      /\ stage' = "connecting"
           \/ stage = "connecting"  /\ stage' \in {"subscribing", "abandoning"}
           \/ stage = "subscribing" /\ stage' \in {"abandoning", "serving"}
           \/ stage = "abandoning"  /\ stage' \in {"serving", "abandoned"}
BY DEF Startup, StartupStep, EnforcePosture, InitDb, ServiceInitDb, InitDbFails, CreateBroker,
       Connect, ConnectFails, ConnectTimesOut, Subscribe, SubscribeFails, Abandon, AbandonRaises

(* The safety half of OnlyBrokerCallsHoldAStart: no step takes a startup   *)
(* back, so it takes six of its own at most, three of them from the        *)
(* connect on; and from there none of them leads anywhere but up, or out   *)
(* of the disconnect that nothing guards. What is left is that they are    *)
(* taken, which is up to wait_for for the connect, and to the broker for   *)
(* the subscribe and the disconnect.                                       *)
THEOREM StartsGetOn == Spec => [][StartGetsOn]_vars
<1>1. ASSUME [Next]_vars PROVE StartGetsOn
  <2>1. Startup => stage \in Starting /\ StagesLeft(stage') < StagesLeft(stage)
    BY StartupLeads DEF StagesLeft, Starting
  <2>2. stage \in Starting => stage' = stage \/ stage' = "stopped" \/ Startup
    BY <1>1, StartMoves
  <2>3. stage \in {"connecting", "subscribing", "abandoning"} =>
         stage' \in {"connecting", "subscribing", "abandoning"}
                      \cup {"serving", "stopped", "abandoned"}
    BY <2>2, StartupLeads DEF Starting
  <2> QED
    BY <2>1, <2>2, <2>3 DEF StartGetsOn
<1> QED
  BY <1>1, PTL DEF Spec
=============================================================================
