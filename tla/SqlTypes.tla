------------------------------- MODULE SqlTypes -------------------------------
(***************************************************************************)
(* The names of data types (crates/types/src/types.rs) and the few texts    *)
(* on which the parser's conversions act: letter case, numbers that are not *)
(* i64.  A name of several words is a sequence of words.                    *)
(***************************************************************************)
EXTENDS TLC, Sequences

pg_type_name ==
    [Bool |-> "bool", Bytea |-> "bytea", Int8 |-> "int8", Int2 |-> "int2", Int4 |-> "int4",
     Text |-> "text", Float4 |-> "float4", Float8 |-> "float8", Date |-> "date", Time |-> "time",
     TimeTz |-> "timetz", Interval |-> "interval", Timestamp |-> "timestamp",
     TimestampTz |-> "timestamptz", Inet |-> "inet", Cidr |-> "cidr", Macaddr |-> "macaddr",
     Macaddr8 |-> "macaddr8", Numeric |-> "numeric", Money |-> "money", Uuid |-> "uuid",
     Json |-> "json", Jsonb |-> "jsonb", Xml |-> "xml", TsVector |-> "tsvector",
     TsQuery |-> "tsquery"]

DataTypes == DOMAIN pg_type_name

sql_name ==
    [Int2 |-> <<"smallint">>, Int4 |-> <<"integer">>, Int8 |-> <<"bigint">>, Float4 |-> <<"real">>,
     Float8 |-> <<"double", "precision">>, Bool |-> <<"boolean">>,
     Time |-> <<"time", "without", "time", "zone">>, TimeTz |-> <<"time", "with", "time", "zone">>,
     Timestamp |-> <<"timestamp", "without", "time", "zone">>,
     TimestampTz |-> <<"timestamp", "with", "time", "zone">>]
    @@ [d \in DataTypes |-> <<pg_type_name[d]>>]

(* Every pg_type_name and every sql_name is accepted, and these.            *)
from_sql_name ==
    (<<"int">> :> "Int4") @@ (<<"float">> :> "Float8") @@ (<<"decimal">> :> "Numeric")
    @@ [n \in {<<"varchar">>, <<"char">>, <<"character", "varying">>, <<"character">>,
               <<"bpchar">>, <<"name">>} |-> "Text"]
    @@ [n \in {<<pg_type_name[d]>> : d \in DataTypes} |->
          CHOOSE d \in DataTypes : n = <<pg_type_name[d]>>]
    @@ [n \in {sql_name[d] : d \in DataTypes} |-> CHOOSE d \in DataTypes : n = sql_name[d]]

-----------------------------------------------------------------------------
(* The texts of the instances.                                              *)

UpperNames == ("A" :> "a") @@ ("T" :> "t")
to_ascii_lowercase(x) == IF x \in DOMAIN UpperNames THEN UpperNames[x] ELSE x

(* Numbers that read as f64, with the text format_float writes for them.    *)
FloatTexts == {"1.5", "2.0"}
HugeTexts == {"9223372036854775808"}
Rounded(x) == IF x = "2.0" THEN "2" ELSE x
=============================================================================
