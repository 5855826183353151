------------------------------- MODULE Filter -------------------------------
(***************************************************************************)
(* Filters on metadata.  Metadata is a function from field names to        *)
(* values; a value has a type and a magnitude.  A filter is a set of       *)
(* conditions that must all hold.                                          *)
(***************************************************************************)
EXTENDS Integers

Numeric(value) == value.type \in {"Integer", "Float"}

\* A missing field and a value that is no number compare false.
CompareValues(metadata, condition, Cmp(_, _)) ==
    /\ condition.field \in DOMAIN metadata
    /\ Numeric(metadata[condition.field])
    /\ Numeric(condition.value)
    /\ Cmp(metadata[condition.field].value, condition.value.value)

HasValue(metadata, field, values) ==
    field \in DOMAIN metadata /\ metadata[field] \in values

\* FilterCondition::matches; `values` is the list of an `in`.
Satisfies(metadata, condition) ==
    CASE condition.op = "eq" -> HasValue(metadata, condition.field, {condition.value})
      [] condition.op = "ne" -> ~HasValue(metadata, condition.field, {condition.value})
      [] condition.op = "gt" -> CompareValues(metadata, condition, LAMBDA a, b : a > b)
      [] condition.op = "gte" -> CompareValues(metadata, condition, LAMBDA a, b : a >= b)
      [] condition.op = "lt" -> CompareValues(metadata, condition, LAMBDA a, b : a < b)
      [] condition.op = "lte" -> CompareValues(metadata, condition, LAMBDA a, b : a <= b)
      [] condition.op = "in" -> HasValue(metadata, condition.field, condition.values)

Matches(filter, metadata) == \A condition \in filter : Satisfies(metadata, condition)
=============================================================================
