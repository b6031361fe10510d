--------------------------- MODULE MCDatasetAdmin ---------------------------
(***************************************************************************)
(* Instance of DatasetAdmin: the built-in dataset and one of an            *)
(* administrator's, labels that collide, edits that add, retype and drop a *)
(* field, files with repeated and unusable ids.                            *)
(***************************************************************************)
EXTENDS DatasetAdmin, TLC

MCNormalizeKey ==
  [Owner |-> <<"owner">>, Status |-> <<"status">>, StatusMark |-> <<"status">>,
   RecordId |-> <<"record_id">>, Symbols |-> <<>>]

Field(label, type) == [key |-> <<>>, label |-> label, type |-> type]
Known(key, label, type) == [key |-> key, label |-> label, type |-> type]
MCBuiltIn ==
  [c \in {<<"owner">>, <<"record_id">>} |->
     IF c = <<"owner">> THEN [label |-> "Owner", type |-> "text", id |-> 0]
     ELSE [label |-> "RecordId", type |-> "integer", id |-> 0]]

MCCreates ==
  {[key |-> "cmdb", source |-> TRUE, keyColumn |-> TRUE,
    fields |-> <<Field("Status", "text"), Field("StatusMark", "text")>>],
   [key |-> "cmdb", source |-> FALSE, keyColumn |-> FALSE,
    fields |-> <<Field("RecordId", "text"), Field("Symbols", "integer")>>]}

MCExisting == {c \in MCCreates : c.source}

MCUpdates ==
  {[key |-> "cmdb", source |-> TRUE,
    fields |-> <<Known(<<"status">>, "Status", "integer"), Field("Owner", "text")>>],
   [key |-> "findings", source |-> TRUE, fields |-> <<Field("Status", "text")>>]}

Line(id, status, mark) ==
  [id |-> id, Status |-> status, StatusMark |-> mark, Owner |-> status]
MCCharted == {<<"status">>}

MCFiles ==
  {[key |-> "cmdb", keyed |-> TRUE, rows |-> <<Line(3, 1, -1), Line(-1, 1, 1), Line(3, 2, 0)>>]}

MCSymmetry == Permutations(Admins)

MCMappings ==
  {[key |-> "findings", set |-> [l \in {"Owner"} |-> <<"owner">>]],
   [key |-> "cmdb", set |-> [l \in {"Status", "StatusMark"} |->
                               IF l = "Status" THEN <<"owner">> ELSE Ignored]]}
=============================================================================
