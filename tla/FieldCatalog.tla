---------------------------- MODULE FieldCatalog ----------------------------
(***************************************************************************)
(* What a dataset can be charted, filtered and searched by, as the field   *)
(* registry says: CatalogService.forDataset, backend/src/datasets.  Pure   *)
(* operators over the enabled fields, key -> [type, dimension, measurable, *)
(* searchable, options], and the columns with a trigram index.             *)
(***************************************************************************)
EXTENDS FiniteSets

filterTypeFor(field) ==
  CASE field.options -> "enum"
    [] field.type \in {"integer", "number"} -> "number"
    [] field.type = "date" -> "date"
    [] field.type = "timestamp" -> "datetime"
    [] field.type = "boolean" -> "boolean"
    [] OTHER -> "text"

filterFields(fields) == [f \in DOMAIN fields |-> filterTypeFor(fields[f])]

\* A dimension per flagged field, and the month of every date, whether it is
\* flagged or not.  (Years are the same thing once more.)  `bucket` names it.
dimensions(fields, bucket) ==
  LET flagged == {f \in DOMAIN fields : fields[f].dimension}
      dates == {f \in DOMAIN fields : fields[f].type \in {"date", "timestamp"}}
      month(d) == CHOOSE f \in dates : bucket[f] = d
  IN [d \in flagged \cup {bucket[f] : f \in dates} |->
        IF d \in {bucket[f] : f \in dates}
        THEN [col |-> month(d), kind |-> "bucket"]
        ELSE [col |-> d, kind |-> IF fields[d].type = "json" THEN "json" ELSE "column"]]

\* The four measures of every measurable number, the record count, and the
\* measures of the registry, name -> [agg, col, test, on].
measures(fields, generated, registry) ==
  LET numeric == {f \in DOMAIN fields :
                    fields[f].measurable /\ fields[f].type \in {"integer", "number"}}
      made == {n \in DOMAIN generated : generated[n].col \in numeric}
  IN [n \in made \cup {"count"} \cup DOMAIN registry |->
        IF n \in DOMAIN registry THEN registry[n]
        ELSE IF n = "count" THEN [agg |-> "count", col |-> "record_id", test |-> "none",
                                  on |-> "record_id"]
        ELSE generated[n]]

\* The columns a search looks in.  A dataset with nothing flagged is searched
\* in all its texts, so that searching never silently matches everything.
searchable(fields) ==
  LET flagged == {f \in DOMAIN fields : fields[f].searchable}
      texts == {f \in DOMAIN fields : fields[f].type \in {"text", "json"}}
  IN {"record_id"} \cup (IF flagged # {} THEN flagged ELSE texts)

\* The quick search ORs only columns with an index, unless none has one.
globalSearch(fields, indexed) ==
  LET columns == searchable(fields) \ {"record_id"}
  IN IF columns \cap indexed # {} THEN columns \cap indexed ELSE columns
=============================================================================
