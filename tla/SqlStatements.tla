----------------------------- MODULE SqlStatements -----------------------------
(***************************************************************************)
(* The statement methods of crates/sql/src/parser.rs as step sequences,     *)
(* under the names they have there.  A field is named after the field of    *)
(* the ast.rs struct it fills; "k" is the variant of Statement.  A struct   *)
(* or enum that only one statement has is folded into the statement's own   *)
(* record, with the variant's name in a field.                              *)
(***************************************************************************)
EXTENDS SqlGrammar

-----------------------------------------------------------------------------
(* Clauses many statements share.                                           *)

parse_if_exists ==
    Either(<<"if">>, <<Eat(<<"exists">>), Put("if_exists", TRUE)>>,
                     <<Put("if_exists", FALSE)>>)

parse_if_not_exists ==
    Either(<<"if">>,
           <<Either(<<"not">>, <<Eat(<<"exists">>)>>, <<>>),
             Put("if_not_exists", TRUE)>>,
           <<Put("if_not_exists", FALSE)>>)

cascade_or_restrict == Seq1(<<Eat(<<"cascade">>), Eat(<<"restrict">>)>>)

parse_isolation_level ==
    Alt("isolation", << <<<<"serializable">>, Some("Serializable")>>,
                        <<<<"repeatable", "read">>, Some("RepeatableRead")>>,
                        <<<<"read", "committed">>, Some("ReadCommitted")>>,
                        <<<<"read", "uncommitted">>, Some("ReadUncommitted")>> >>)

parse_transaction_modes == Seq1(
    <<Put("isolation", None), Put("read_only", None),
      Loop(<<C(<<"isolation">>, <<K(<<"level">>), parse_isolation_level, Eat(<<",">>)>>),
             C(<<"read">>, <<Alt("read_only", << <<<<"only">>, Some(TRUE)>>,
                                                 <<<<"write">>, Some(FALSE)>> >>),
                             Eat(<<",">>)>>),
             C(<<"deferrable">>, <<Eat(<<",">>)>>),
             C(<<"not">>, <<K(<<"deferrable">>), Eat(<<",">>)>>)>>)>>)

(* Methods that return a value rather than a struct put it in field "it".   *)
paren_expr == <<K(<<"(">>), Ex("it"), K(<<")">>)>>
null_or_string == <<Either(<<"null">>, <<Put("it", None)>>, <<GetSome("it", "string")>>)>>
infinity_or_string == <<Either(<<"infinity">>, <<Put("it", None)>>, <<GetSome("it", "string")>>)>>

-----------------------------------------------------------------------------
(* Session and transaction statements.                                      *)

begin == <<Eat(<<"transaction">>), Eat(<<"work">>), parse_transaction_modes, Put("k", "Begin")>>

commit == <<Either(<<"prepared">>, <<Str("gid"), Put("k", "CommitPrepared")>>,
                   <<Eat(<<"transaction">>), Eat(<<"work">>), Put("k", "Commit")>>)>>

rollback ==
    <<Pick(<<C(<<"to">>, <<Eat(<<"savepoint">>), Name("name"), Put("k", "RollbackToSavepoint")>>),
             C(<<"prepared">>, <<Str("gid"), Put("k", "RollbackPrepared")>>),
             Else(<<Eat(<<"transaction">>), Eat(<<"work">>), Put("k", "Rollback")>>)>>)>>

parse_savepoint == <<Name("name"), Put("k", "Savepoint")>>
parse_release == <<Eat(<<"savepoint">>), Name("name"), Put("k", "ReleaseSavepoint")>>

set_transaction(session) == <<parse_transaction_modes, Put("session", session), Put("k", "SetTransaction")>>

finish_set_guc(local) ==
    <<Eat(<<"=", "to">>),
      Either(<<"default">>, <<Put("k", "ResetConfig")>>,
             <<Get("value", "setting_value"), Put("local", local), Put("k", "Set")>>)>>

parse_set ==
    <<Pick(<<
        C(<<"constraints">>, <<SkipTo(";"), Put("k", "SetConstraints")>>),
        C(<<"session">>, <<Pick(<<
            C(<<"characteristics">>, <<K(<<"as", "transaction">>)>> \o set_transaction(TRUE)),
            C(<<"transaction">>, set_transaction(FALSE)),
            Else(<<GetSome("name", "guc_name")>> \o finish_set_guc(FALSE))>>)>>),
        C(<<"transaction">>, set_transaction(FALSE)),
        C(<<"local">>, <<Either(<<"transaction">>, set_transaction(FALSE),
                                <<GetSome("name", "guc_name")>> \o finish_set_guc(TRUE))>>),
        Else(<<GetSome("name", "guc_name")>> \o finish_set_guc(FALSE))>>)>>

reset == <<Either(<<"all">>, <<Put("name", None)>>, <<GetSome("name", "guc_name")>>), Put("k", "ResetConfig")>>
show == <<Either(<<"all">>, <<Put("name", <<"all">>)>>, <<GetSome("name", "guc_name")>>), Put("k", "Show")>>

parse_discard ==
    <<Alt("target", << <<<<"all">>, "All">>, <<<<"plans">>, "Plans">>,
                       <<<<"sequences">>, "Sequences">>, <<<<"temp">>, "Temp">>,
                       <<<<"temporary">>, "Temp">> >>), Put("k", "Discard")>>

parse_listen == <<Name("channel"), Put("k", "Listen")>>
parse_notify == <<Name("channel"), Opt("payload", <<",">>, "string"), Put("k", "Notify")>>
parse_unlisten ==
    <<Pick(<<C(<<"*">>, <<Put("channel", None)>>), C(<<"all">>, <<Put("channel", None)>>),
             Else(<<GetSome("channel", "ident")>>)>>), Put("k", "Unlisten")>>

parse_lock_table ==
    <<Eat(<<"table">>), List("tables", "object_name"),
      Either(<<"in">>, <<Get("mode", "lock_mode")>>, <<Put("mode", None)>>),
      Flag("nowait", <<"nowait">>), Put("k", "LockTable")>>

parse_declare_cursor ==
    <<Name("name"),
      Loop(<<C(<<"binary">>, <<>>), C(<<"insensitive">>, <<>>), C(<<"scroll">>, <<>>),
             C(<<"no">>, <<K(<<"scroll">>)>>)>>),
      K(<<"cursor">>),
      Pick(<<C(<<"with">>, <<K(<<"hold">>)>>), C(<<"without">>, <<K(<<"hold">>)>>), Else(<<>>)>>),
      K(<<"for">>), Get("select", "select"), Put("k", "DeclareCursor")>>

parse_fetch ==
    <<Pick(<<C(<<"next">>, <<Put("count", <<"Next">>)>>), C(<<"all">>, <<Put("count", <<"All">>)>>),
             Look(<<"<number>">>, <<GetSome("count", "number")>>), Else(<<Put("count", <<"Next">>)>>)>>),
      Eat(<<"from", "in">>), Name("cursor"), Put("k", "Fetch")>>

-----------------------------------------------------------------------------
(* Maintenance.                                                             *)

parse_explain == <<Flag("analyze", <<"analyze">>), Get("statement", "statement"), Put("k", "Explain")>>
parse_analyze == <<Eat(<<"verbose">>), Get("table", "maybe_word"), Put("k", "Analyze")>>
parse_vacuum ==
    <<Either(<<"(">>, <<SkipTo(")"), K(<<")">>)>>, <<>>), Eat(<<"verbose">>), Eat(<<"analyze">>),
      Get("table", "maybe_name"), Put("k", "Vacuum")>>
parse_reindex ==
    <<Pick(<<C(<<"table">>, <<Put("target", "Table"), GetSome("name", "object_name")>>),
             C(<<"index">>, <<Put("target", "Index"), GetSome("name", "object_name")>>),
             C(<<"database">>, <<Put("target", "Database"), GetSome("name", "object_name")>>),
             C(<<"system">>, <<Put("target", "System"), Get("name", "maybe_name")>>)>>),
      Put("k", "Reindex")>>
parse_cluster ==
    <<Eat(<<"verbose">>), Get("table", "maybe_name"),
      Opt("index", <<"using">>, "object_name"), Put("k", "Cluster")>>
parse_refresh ==
    <<K(<<"materialized", "view">>), Eat(<<"concurrently">>), Obj("name"),
      Put("k", "RefreshMaterializedView")>>
parse_truncate ==
    <<Eat(<<"table">>), List("tables", "object_name"),
      Pick(<<C(<<"restart">>, <<K(<<"identity">>)>>), C(<<"continue">>, <<K(<<"identity">>)>>),
             Else(<<>>)>>),
      cascade_or_restrict, Put("k", "Truncate")>>

parse_copy_option == <<
    C(<<"format", "text">>, <<Put("format", "Text")>>),
    C(<<"format", "csv">>, <<Put("format", "Csv")>>),
    C(<<"format", "binary">>, <<Put("format", "Binary")>>),
    C(<<"csv">>, <<Put("format", "Csv")>>), C(<<"binary">>, <<Put("format", "Binary")>>),
    Look(<<"delimiter">>, <<Opt("delimiter", <<"delimiter">>, "one_char")>>),
    C(<<"header">>, <<Pick(<<C(<<"false">>, <<Put("header", FALSE)>>),
                             C(<<"off">>, <<Put("header", FALSE)>>),
                             Else(<<Put("header", TRUE), Eat(<<"true">>), Eat(<<"on">>)>>)>>)>>),
    Look(<<"null">>, <<Opt("null", <<"null">>, "string")>>)>>

parse_copy ==
    <<Pick([j \in 1..4 |->
              Look(<<"(", <<"select", "with", "values", "table">>[j]>>,
                   <<GetSome("query", "subquery"), Put("table", ""), Put("columns", None)>>)]
           \o <<Else(<<Put("query", None), Obj("table"), Get("columns", "maybe_names")>>)>>),
      Pick(<<C(<<"from">>, <<Put("direction", "From"),
                             Either(<<"stdin">>, <<Put("file", None)>>, <<GetSome("file", "string")>>)>>),
             C(<<"to">>, <<Put("direction", "To"),
                           Either(<<"stdout">>, <<Put("file", None)>>, <<GetSome("file", "string")>>)>>)>>),
      Turn("copy_direction"),
      Put("format", "Text"), Put("delimiter", None), Put("header", FALSE), Put("null", None),
      Eat(<<"with">>),
      Either(<<"(">>, <<Loop(Append(parse_copy_option, C(<<",">>, <<>>))), K(<<")">>)>>,
             <<Loop(parse_copy_option)>>),
      Put("k", "Copy")>>

-----------------------------------------------------------------------------
(* Comments, privileges and roles.                                          *)

parse_column_comment_target == Seq1(
    <<Pick(<<Look(<<"<any>", ".", "<any>", ".">>, <<Drop("ident"), K(<<".">>)>>), Else(<<>>)>>),
      Name("table"), K(<<".">>), Name("column")>>)

comment_object == Pick(
    <<C(<<"column">>, <<Put("object", "Column"), parse_column_comment_target>>),
      Else(<<Pick(<<C(<<"table">>, <<>>), C(<<"view">>, <<>>), C(<<"materialized", "view">>, <<>>),
                    Else(<<>>)>>),
             Put("object", "Relation"), Obj("name")>>)>>)

parse_comment ==
    <<K(<<"on">>), comment_object, K(<<"is">>), Get("comment", "null_or_string"), Put("k", "Comment")>>

parse_security_label ==
    <<K(<<"label">>), Either(<<"for">>, <<Name("provider")>>, <<Put("provider", "default")>>),
      K(<<"on">>), comment_object, K(<<"is">>), Get("label", "null_or_string"),
      Put("k", "SecurityLabel")>>

parse_grant_object == Pick(
    <<C(<<"all">>, <<Eat(<<"privileges">>), K(<<"on">>), Eat(<<"table">>), Put("object", "Table"),
                     Put("privileges", None), Obj("table")>>),
      Else(<<List("names", "ident"),
             Either(<<"on">>, <<Eat(<<"table">>), Obj("table"), Put("object", "Table"),
                                Turn("privileges")>>,
                    <<Put("object", "Roles")>>)>>)>>)

parse_grantee ==
    <<Eat(<<"group">>),
      Either(<<"public">>, <<Put("name", None)>>, <<GetSome("name", "ident")>>), Put("k", "Grantee")>>

granted_by == Either(<<"granted">>, <<K(<<"by">>), Drop("ident")>>, <<>>)

parse_grant ==
    <<parse_grant_object, K(<<"to">>), List("grantees", "grantee"),
      Either(<<"with">>, <<Eat(<<"grant", "admin">>), Eat(<<"option">>)>>, <<>>),
      granted_by, Put("k", "Grant")>>

parse_revoke ==
    <<Pick(<<C(<<"grant", "option">>, <<K(<<"for">>)>>), C(<<"admin", "option">>, <<K(<<"for">>)>>),
             Else(<<>>)>>),
      parse_grant_object, K(<<"from">>), List("grantees", "grantee"),
      granted_by, Eat(<<"cascade", "restrict">>), Put("k", "Revoke")>>

role_flag(f, yes, no) == <<C(<<yes>>, <<Put(f, Some(TRUE))>>), C(<<no>>, <<Put(f, Some(FALSE))>>)>>
role_option(ws, step) == <<Look(ws, <<step>>)>>
role_names(w, f) == <<C(<<w>>, <<More(f, "ident")>>)>>

parse_role_options == Seq1(
    <<Put("superuser", None), Put("inherit", None), Put("create_role", None),
      Put("create_db", None), Put("login", None), Put("replication", None),
      Put("bypass_rls", None), Put("connection_limit", None), Put("password", None),
      Put("valid_until", None), Put("in_role", <<>>), Put("role_members", <<>>),
      Put("admin_members", <<>>),
      Eat(<<"with">>),
      Loop(role_flag("superuser", "superuser", "nosuperuser")
           \o role_flag("inherit", "inherit", "noinherit")
           \o role_flag("create_role", "createrole", "nocreaterole")
           \o role_flag("create_db", "createdb", "nocreatedb")
           \o role_flag("login", "login", "nologin")
           \o role_flag("replication", "replication", "noreplication")
           \o role_flag("bypass_rls", "bypassrls", "nobypassrls")
           \o role_option(<<"connection">>, Opt("connection_limit", <<"connection", "limit">>, "number"))
           \o role_option(<<"password">>, Opt("password", <<"password">>, "null_or_string"))
           \o role_option(<<"valid">>, Opt("valid_until", <<"valid", "until">>, "infinity_or_string"))
           \o <<C(<<"in">>, <<Eat(<<"role", "group">>), More("in_role", "ident")>>)>>
           \o role_names("role", "role_members") \o role_names("admin", "admin_members")
           \o role_names("user", "role_members")
           \o <<C(<<"sysid">>, <<OneToken>>)>>)>>)

create_role == <<Put("is_user", FALSE), Name("name"), parse_role_options, Put("k", "CreateRole")>>
create_user == <<Put("is_user", TRUE), Name("name"), parse_role_options, Put("login", Some(TRUE)),
                 Put("k", "CreateRole")>>
alter_role == <<Name("name"), parse_role_options, Put("k", "AlterRole")>>

-----------------------------------------------------------------------------
(* Sequences, views and small objects: branches of parse_create.            *)

parse_sequence_options == Seq1(
    <<Put("start", <<1, "1">>), Put("increment", <<1, "1">>),
      Loop(<<C(<<"start">>, <<Eat(<<"with">>), Get("start", "i64")>>),
             C(<<"increment">>, <<Eat(<<"by">>), Get("increment", "i64")>>),
             C(<<"minvalue">>, <<OneToken>>), C(<<"maxvalue">>, <<OneToken>>),
             C(<<"cache">>, <<OneToken>>), C(<<"no">>, <<OneToken>>),
             C(<<"cycle", "by">>, <<Drop("object_name")>>), C(<<"cycle">>, <<>>),
             C(<<"owned", "by">>, <<Drop("object_name")>>), C(<<"owned">>, <<>>)>>)>>)

parse_alter_sequence_options == Seq1(
    <<Put("restart", None), Put("increment", None),
      Loop(<<C(<<"restart">>, <<Eat(<<"with">>), GetSome("restart", "i64")>>),
             C(<<"increment">>, <<Eat(<<"by">>), GetSome("increment", "i64")>>)>>)>>)

create_sequence == <<parse_if_not_exists, Obj("name"), parse_sequence_options, Put("k", "CreateSequence")>>
alter_sequence == <<Obj("name"), parse_alter_sequence_options, Put("k", "AlterSequence")>>

create_matview == <<K(<<"view">>), parse_if_not_exists, Obj("name"), K(<<"as">>),
                    Get("select", "select"), Put("k", "CreateMaterializedView")>>
create_view == <<Obj("name"), K(<<"as">>), Get("select", "select"), Put("k", "CreateView")>>

create_extension ==
    <<parse_if_not_exists, Obj("name"), Eat(<<"with">>), Opt("version", <<"version">>, "version"),
      Loop(<<C(<<"schema">>, <<Drop("object_name")>>)>>), Eat(<<"cascade">>),
      Put("k", "CreateExtension")>>
create_schema == <<parse_if_not_exists, Obj("name"), Put("k", "CreateSchema")>>
create_database == <<Obj("name"), SkipTo(";"), Put("k", "CreateDatabase")>>
create_tablespace == <<Obj("name"), K(<<"location">>), Str("location"), Put("k", "CreateTablespace")>>
create_collation == <<parse_if_not_exists, Obj("name"), Get("locale", "collation_options"),
                      Put("k", "CreateCollation")>>
catalog_object(kind) == <<Obj("name"), Get("definition", "tail"), Put("kind", kind),
                          Put("k", "CreateCatalogObject")>>

alter_system ==
    <<Pick(<<C(<<"set">>, <<Put("action", "Set"), GetSome("name", "object_name"), K(<<"=">>),
                            Get("value", "setting_value")>>),
             C(<<"reset">>, <<Put("action", "Reset"),
                              Either(<<"all">>, <<Put("name", None)>>,
                                     <<GetSome("name", "object_name")>>)>>)>>),
      Put("k", "AlterSystem")>>
alter_database ==
    <<Obj("name"),
      Either(<<"rename">>, <<K(<<"to">>), Put("action", "Rename"), Obj("to")>>,
             <<Eat(<<"with">>), K(<<"connection", "limit">>), Put("action", "SetConnectionLimit"),
               Get("limit", "number")>>),
      Put("k", "AlterDatabase")>>
alter_extension == <<Obj("name"), K(<<"update">>), Opt("to_version", <<"to">>, "version"),
                     Put("k", "AlterExtension")>>

-----------------------------------------------------------------------------
(* Tables, columns and constraints.                                         *)

parse_not_valid ==
    Either(<<"not">>, <<Either(<<"valid">>, <<Put("validated", FALSE)>>, <<Put("validated", TRUE)>>)>>,
           <<Put("validated", TRUE)>>)

parse_deferrable_tail ==
    Loop(<<C(<<"not">>, <<Eat(<<"deferrable">>)>>), C(<<"deferrable">>, <<>>),
           C(<<"initially">>, <<Eat(<<"deferred", "immediate">>)>>)>>)

parse_fk_actions_tail == Seq1(
    <<Either(<<"match">>, <<Eat(<<"full", "partial", "simple">>)>>, <<>>),
      Loop(<<C(<<"on">>, <<Eat(<<"delete", "update">>),
                           Pick(<<C(<<"no">>, <<Eat(<<"action">>)>>),
                                  C(<<"set">>, <<Eat(<<"null", "default">>)>>),
                                  Else(<<Eat(<<"restrict", "cascade">>)>>)>>)>>)>>)>>)

parse_table_constraint ==
    <<Opt("name", <<"constraint">>, "ident"),
      Pick(<<
        Look(<<"exclude">>, <<Get("definition", "balanced"), parse_deferrable_tail,
                              Put("k", "Exclude")>>),
        C(<<"check">>, <<Get("expr", "paren_expr"), parse_not_valid, parse_deferrable_tail,
                         Put("k", "Check")>>),
        C(<<"foreign">>, <<K(<<"key", "(">>), Name("column"), K(<<")", "references">>),
                           Obj("ref_table"), K(<<"(">>), Name("ref_column"), K(<<")">>),
                           parse_fk_actions_tail, parse_not_valid, parse_deferrable_tail,
                           Put("k", "ForeignKey")>>),
        Else(<<Alt("primary_key", << <<<<"primary", "key">>, TRUE>>, <<<<"unique">>, FALSE>> >>),
               Paren("columns", "ident"), Either(<<"not">>, <<Eat(<<"valid">>)>>, <<>>),
               parse_deferrable_tail, Put("k", "Unique")>>)>>)>>

(* The constraints a column carries inline.                                 *)
inline_references ==
    <<Opt("name", <<"constraint">>, "ident"), K(<<"references">>), Obj("ref_table"),
      Either(<<"(">>, <<Name("ref_column"), K(<<")">>)>>, <<Put("ref_column", "id")>>),
      parse_fk_actions_tail, parse_not_valid, parse_deferrable_tail, Put("k", "ForeignKey")>>
inline_check ==
    <<Opt("name", <<"constraint">>, "ident"), K(<<"check">>), Get("expr", "paren_expr"),
      parse_not_valid, parse_deferrable_tail, Put("k", "Check")>>
inline_unique ==
    <<Opt("name", <<"constraint">>, "ident"), K(<<"unique">>), Put("primary_key", FALSE),
      Put("k", "Unique")>>

inline(kw, nt) == <<Look(<<kw>>, <<PushGet("inline", nt)>>),
                    Look(<<"constraint", "<any>", kw>>, <<PushGet("inline", nt)>>)>>
unnamed(kw) == <<Look(<<"constraint", "<any>", kw>>, <<OneToken, Drop("ident")>>)>>

generated_column ==
    C(<<"generated">>,
      <<Pick(<<C(<<"always">>, <<Put("always", TRUE)>>),
               C(<<"by">>, <<K(<<"default">>), Put("always", FALSE)>>),
               Else(<<Put("always", FALSE)>>)>>),
        K(<<"as">>),
        Either(<<"identity">>,
               <<Put("identity", TRUE), Copy("identity_always", "always"), Put("not_null", TRUE),
                 Drop("skip_identity_options")>>,
               <<GetSome("generated", "paren_expr"), Eat(<<"stored">>)>>)>>)

parse_column_type == Pick(
    EatAny(<<"serial", "serial4">>, <<Put("data_type", <<"Int4", None>>), Put("serial", TRUE)>>)
    \o EatAny(<<"bigserial", "serial8">>, <<Put("data_type", <<"Int8", None>>), Put("serial", TRUE)>>)
    \o EatAny(<<"smallserial", "serial2">>, <<Put("data_type", <<"Int2", None>>), Put("serial", TRUE)>>)
    \o <<Else(<<Get("data_type", "data_type_named"), Put("serial", FALSE)>>)>>)

parse_column_def_with_constraints ==
    <<Name("name"), parse_column_type, Copy("not_null", "serial"), Put("primary_key", FALSE),
      Put("default", None), Put("identity", FALSE), Put("identity_always", FALSE),
      Put("generated", None), Put("inline", <<>>), Put("always", FALSE),
      Loop(inline("references", "inline_references") \o inline("check", "inline_check")
           \o inline("unique", "inline_unique")
           \o unnamed("primary") \o unnamed("not") \o unnamed("null") \o unnamed("default")
           \o <<C(<<"primary">>, <<K(<<"key">>), Put("primary_key", TRUE), Put("not_null", TRUE)>>),
                C(<<"not", "null">>, <<Put("not_null", TRUE)>>), C(<<"null">>, <<>>)>>
           \o LookAny(<<"deferrable", "initially">>, <<parse_deferrable_tail>>)
           \o <<Look(<<"not", "deferrable">>, <<parse_deferrable_tail>>),
                C(<<"collate">>, <<Drop("qualified_name")>>),
                C(<<"default">>, <<GetSome("default", "expr")>>), generated_column>>),
      Put("k", "ColumnDef")>>

parse_partition_bound ==
    <<K(<<"for", "values">>),
      Pick(<<C(<<"from">>, <<Get("from", "paren_expr"), K(<<"to">>), Get("to", "paren_expr"),
                             Put("k", "Range")>>),
             C(<<"in">>, <<Paren("list", "expr"), Put("k", "List")>>),
             C(<<"with">>, <<Put("modulus", <<1, "0">>), Put("remainder", <<1, "0">>), K(<<"(">>),
                             Sep(",", <<C(<<"modulus">>, <<Get("modulus", "int_expr")>>),
                                        C(<<"remainder">>, <<Get("remainder", "int_expr")>>)>>),
                             K(<<")">>), Put("k", "Hash")>>)>>)>>

partition_of == <<Obj("parent"), Get("bound", "partition_bound"), Put("k", "PartitionOf")>>
partition_by ==
    <<Alt("strategy", << <<<<"range">>, "Range">>, <<<<"list">>, "List">>, <<<<"hash">>, "Hash">> >>),
      K(<<"(">>), Name("column"), K(<<")">>), Put("k", "PartitionBy")>>

constraint_leads == <<"primary", "unique", "constraint", "check", "foreign">>
table_constraint == <<PushGet("constraints", "table_constraint"), Turn("name_last")>>

table_body(elements) == Seq1(
    <<Put("columns", <<>>), Put("constraints", <<>>), K(<<"(">>), Sep(",", elements), K(<<")">>),
      Turn("has_columns")>>)
plain_table == Seq1(
    <<Put("inherits", <<>>), Put("partition_by", None), Put("partition_of", None)>>)

create_table ==
    <<Pick(EatAny(<<"temporary", "temp">>, <<Put("persistence", "Temporary")>>)
           \o <<C(<<"unlogged">>, <<Put("persistence", "Unlogged")>>),
                Else(<<Put("persistence", "Permanent")>>)>>),
      K(<<"table">>), parse_if_not_exists, Obj("name"), plain_table,
      Either(<<"partition", "of">>,
             <<GetSome("partition_of", "partition_of"), Put("columns", <<>>), Put("constraints", <<>>)>>,
             <<table_body(LookAny(Append(constraint_leads, "exclude"), table_constraint)
                          \o <<Else(<<PushGet("columns", "column_def_with_constraints"), Turn("take_inline")>>)>>),
               Either(<<"inherits">>, <<Paren("inherits", "object_name")>>, <<>>),
               Either(<<"partition", "by">>, <<GetSome("partition_by", "partition_by")>>, <<>>)>>),
      Put("k", "CreateTable")>>

parse_create_foreign ==
    <<Either(<<"data">>, <<K(<<"wrapper">>)>> \o catalog_object("ForeignDataWrapper"),
             <<K(<<"table">>), parse_if_not_exists, Obj("name"), plain_table,
               Put("persistence", "Permanent"),
               table_body(LookAny(constraint_leads, table_constraint)
                          \o <<Else(<<PushGet("columns", "column_def")>>)>>),
               SkipTo(";"), Put("k", "CreateTable")>>)>>

parse_create_index ==
    <<Flag("unique", <<"unique">>), K(<<"index">>), parse_if_not_exists,
      Pick(<<Look(<<"on">>, <<Put("name", None)>>), Else(<<GetSome("name", "ident")>>)>>),
      K(<<"on">>), Obj("table"),
      Either(<<"using">>, <<Name("method")>>, <<Put("method", "btree")>>), Turn("index_method"),
      Paren("keys", "index_key"),
      Put("include", <<>>), Either(<<"include">>, <<Paren("include", "ident")>>, <<>>),
      Opt("predicate", <<"where">>, "expr"), Put("k", "CreateIndex")>>
index_key ==
    <<Pick(<<Look(<<"(">>, <<Put("column", None), GetSome("expr", "paren_expr")>>),
             Else(<<GetSome("column", "ident"), Put("expr", None)>>)>>),
      Eat(<<"asc", "desc">>), Put("k", "IndexKeyExpr")>>

-----------------------------------------------------------------------------
(* ALTER TABLE: "action" is the variant of AlterAction.                     *)

parse_row_level_security_tail(a) ==
    <<K(<<"row", "level", "security">>), Put("action", "RowSecurity"), Put("security", a)>>

alter_add ==
    <<Pick(LookAny(Append(constraint_leads, "exclude"),
                   <<Get("constraint", "table_constraint"), Turn("name_constraint"),
                     Put("action", "AddConstraint")>>)
           \o <<Else(<<Eat(<<"column">>), parse_if_not_exists, Get("column", "column_def"),
                       Put("action", "AddColumn")>>)>>)>>
alter_drop ==
    <<Either(<<"constraint">>, <<Put("action", "DropConstraint")>>,
             <<Eat(<<"column">>), Put("action", "DropColumn")>>),
      parse_if_exists, Name("name"), cascade_or_restrict>>
alter_rename ==
    <<Either(<<"to">>, <<Obj("to"), Put("action", "RenameTable")>>,
             <<Eat(<<"column">>), Name("from"), K(<<"to">>), Name("to"),
               Put("action", "RenameColumn")>>)>>

alter_noop == <<SkipTo(";"), Put("action", "AlterColumnNoop"), Forget("column")>>
alter_column ==
    <<Eat(<<"column">>), Name("column"),
      Pick(<<C(<<"set">>, <<Pick(<<
                 C(<<"default">>, <<Ex("default"), Put("action", "SetColumnDefault")>>),
                 C(<<"not">>, <<K(<<"null">>), Put("not_null", TRUE), Put("action", "SetColumnNotNull")>>),
                 Else(alter_noop)>>)>>),
             C(<<"drop">>, <<Pick(<<
                 C(<<"default">>, <<Put("action", "DropColumnDefault")>>),
                 Else(<<K(<<"not", "null">>), Put("not_null", FALSE),
                        Put("action", "SetColumnNotNull")>>)>>)>>),
             Else(alter_noop)>>)>>

alter_table ==
    <<K(<<"table">>), Either(<<"if">>, <<Eat(<<"exists">>)>>, <<>>), Eat(<<"only">>), Obj("table"),
      Pick(<<C(<<"add">>, alter_add), C(<<"drop">>, alter_drop), C(<<"rename">>, alter_rename),
             C(<<"owner">>, <<K(<<"to">>), Name("owner"), Put("action", "OwnerTo")>>),
             C(<<"enable">>, parse_row_level_security_tail("Enable")),
             C(<<"disable">>, parse_row_level_security_tail("Disable")),
             C(<<"force">>, parse_row_level_security_tail("Force")),
             C(<<"no", "force">>, parse_row_level_security_tail("NoForce")),
             C(<<"alter">>, alter_column)>>
           \o LookAny(<<"set", "reset", "cluster", "inherit", "validate">>,
                      <<SkipTo(";"), Put("action", "Noop")>>)),
      Put("k", "AlterTable")>>

parse_alter == <<
    Pick(EatAny(<<"role", "user">>, alter_role)
         \o <<C(<<"system">>, alter_system), C(<<"sequence">>, alter_sequence),
              C(<<"database">>, alter_database), C(<<"extension">>, alter_extension),
              C(<<"policy">>, <<Get("it", "alter_policy")>>), Else(alter_table)>>)>>

-----------------------------------------------------------------------------
(* Policies, types and domains.                                             *)

parse_policy_roles ==
    <<Put("it", <<>>),
      Sep(",", <<C(<<"public">>, <<>>)>>
               \o EatAny(<<"current_user", "session_user">>, <<Push("it", "current_user")>>)
               \o <<Else(<<PushGet("it", "ident")>>)>>)>>

policy_tests == Seq1(<<Opt("using", <<"using">>, "paren_expr"),
                       Opt("with_check", <<"with", "check">>, "paren_expr")>>)

parse_create_policy ==
    <<Name("name"), K(<<"on">>), Obj("table"),
      Either(<<"as">>, <<Alt("permissive", << <<<<"permissive">>, TRUE>>, <<<<"restrictive">>, FALSE>> >>)>>,
             <<Put("permissive", TRUE)>>),
      Either(<<"for">>, <<Alt("command", << <<<<"all">>, "all">>, <<<<"select">>, "select">>,
                                            <<<<"insert">>, "insert">>, <<<<"update">>, "update">>,
                                            <<<<"delete">>, "delete">> >>)>>,
             <<Put("command", "all")>>),
      Either(<<"to">>, <<Get("roles", "policy_roles")>>, <<Put("roles", <<>>)>>),
      policy_tests, Put("k", "CreatePolicy")>>

parse_alter_policy ==
    <<Name("name"), K(<<"on">>), Obj("table"),
      Either(<<"rename">>,
             <<K(<<"to">>), Drop("ident"), Put("roles", None), Put("using", None), Put("with_check", None)>>,
             <<Opt("roles", <<"to">>, "policy_roles"), policy_tests>>),
      Put("k", "AlterPolicy")>>

parse_collation_options ==
    <<Put("locales", <<>>),
      Either(<<"from">>, <<PushGet("locales", "object_name")>>,
             <<K(<<"(">>),
               Sep(",", EatAny(<<"locale", "lc_collate", "lc_ctype">>,
                               <<K(<<"=">>), PushGet("locales", "version")>>)
                        \o EatAny(<<"provider", "deterministic", "version">>, <<K(<<"=">>), OneToken>>)),
               K(<<")">>)>>),
      Turn("first_locale")>>

parse_create_type ==
    <<Obj("name"), K(<<"as">>),
      Pick(<<C(<<"enum">>, <<Paren0("labels", "string"), Put("kind", "Enum")>>),
             C(<<"range">>, <<Put("subtype", "Text"), K(<<"(">>),
                              Sep(",", <<C(<<"subtype">>, <<K(<<"=">>), Get("subtype", "data_type")>>),
                                         Else(<<Drop("ident"), K(<<"=">>), Drop("object_name")>>)>>),
                              K(<<")">>), Put("kind", "Range")>>),
             Else(<<Paren("attributes", "attribute"), Put("kind", "Composite")>>)>>),
      Put("k", "CreateType")>>
attribute == <<Name("name"), Get("data_type", "data_type"), Put("k", "Attribute")>>

parse_create_domain ==
    <<Obj("name"), Eat(<<"as">>), Get("base", "data_type"), Put("not_null", FALSE), Put("check", None),
      Loop(<<C(<<"not">>, <<K(<<"null">>), Put("not_null", TRUE)>>), C(<<"null">>, <<>>),
             C(<<"default">>, <<Drop("expr")>>), C(<<"constraint">>, <<Drop("ident")>>),
             C(<<"check">>, <<GetSome("check", "paren_expr")>>)>>),
      Put("k", "CreateDomain")>>

-----------------------------------------------------------------------------
(* Functions, triggers, rules, aggregates and operators.                    *)

argument_mode == Pick(EatAny(<<"in", "out", "inout", "variadic">>, <<>>) \o <<Else(<<>>)>>)
untyped_leads(c) == <<Look(<<c, ",">>, <<>>), Look(<<c, ")">>, <<>>), Look(<<c, "(">>, <<>>)>>

function_arg ==
    <<argument_mode, Put("name", None),
      Pick(untyped_leads("<word>") \o untyped_leads("<quoted>") \o <<Else(<<GetSome("name", "ident")>>)>>),
      Get("type", "type_name_str"),
      Pick(EatAny(<<"default", "=">>, <<Drop("expr")>>) \o <<Else(<<>>)>>),
      Put("k", "FunctionArg")>>

function_returns == Either(<<"returns">>,
    <<Pick(<<C(<<"setof">>, <<GetSome("returns", "type_name_str")>>),
             C(<<"table">>, <<Drop("balanced_parens"), Put("returns", Some(<<"Text", <<"record">>>>))>>),
             C(<<"trigger">>, <<Put("returns", Some(<<"Text", <<"trigger">>>>))>>),
             Else(<<GetSome("returns", "type_name_str")>>)>>)>>,
    <<Put("returns", None)>>)

security_of == Pick(<<C(<<"definer">>, <<Put("security_definer", TRUE)>>),
                      C(<<"invoker">>, <<Put("security_definer", FALSE)>>), Else(<<>>)>>)
parse_function_body == <<GetSome("body", "string"), Opt("link_symbol", <<",">>, "version")>>

function_option ==
    <<C(<<"as">>, parse_function_body), C(<<"language">>, <<Get("language", "language")>>)>>
    \o EatAny(<<"immutable", "stable", "volatile", "leakproof", "window", "parallel", "cost",
                "rows", "support">>, <<Drop("attribute_arg")>>)
    \o <<C(<<"strict">>, <<Put("strict", TRUE)>>),
         C(<<"called">>, <<Eat(<<"on">>), Eat(<<"null">>), Eat(<<"input">>), Put("strict", FALSE)>>),
         C(<<"returns">>, <<Eat(<<"null">>), Eat(<<"on">>), Eat(<<"null">>), Eat(<<"input">>),
                            Put("strict", TRUE)>>),
         C(<<"security">>, <<security_of>>), C(<<"external", "security">>, <<security_of>>),
         C(<<"external">>, <<>>),
         C(<<"set">>, <<Drop("object_name"), Pick(EatAny(<<"=", "to">>, <<OneToken>>) \o <<Else(<<>>)>>)>>)>>

parse_create_function(r) ==
    <<Put("or_replace", r), Obj("name"), Paren0("args", "function_arg"), function_returns,
      Put("body", None), Put("link_symbol", None), Put("language", "sql"),
      Put("security_definer", FALSE), Put("strict", FALSE),
      Loop(function_option), Need("body"), Put("k", "CreateFunction")>>

trigger_event == <<
    C(<<"insert">>, <<Push("events", "Insert")>>), C(<<"delete">>, <<Push("events", "Delete")>>),
    C(<<"update">>, <<Push("events", "Update"),
                      Either(<<"of">>, <<Sep(",", <<Else(<<Drop("ident")>>)>>)>>, <<>>)>>),
    C(<<"truncate">>, <<>>)>>

parse_create_trigger ==
    <<Name("name"),
      Alt("timing", << <<<<"before">>, "Before">>, <<<<"after">>, "After">>,
                       <<<<"instead", "of">>, "Before">> >>),
      Put("events", <<>>), Sep("or", trigger_event), K(<<"on">>), Obj("table"),
      Either(<<"from">>, <<Drop("object_name")>>, <<>>),
      Loop(EatAny(<<"not", "deferrable", "initially">>,
                  <<Eat(<<"deferrable">>), Eat(<<"immediate">>), Eat(<<"deferred">>)>>)),
      Either(<<"referencing">>, <<SkipTo("for")>>, <<>>),
      Put("for_each_row", FALSE),
      Either(<<"for">>, <<Eat(<<"each">>),
                          Either(<<"row">>, <<Put("for_each_row", TRUE)>>, <<Eat(<<"statement">>)>>)>>, <<>>),
      Either(<<"when">>, <<Drop("balanced_parens")>>, <<>>),
      K(<<"execute">>), Pick(EatAny(<<"function", "procedure">>, <<>>)), Obj("function"),
      Pick(<<Look(<<"(">>, <<Drop("balanced_parens")>>), Else(<<>>)>>), Put("k", "CreateTrigger")>>

parse_create_rule(r) ==
    <<Put("or_replace", r), Name("name"), K(<<"as", "on">>),
      Alt("event", << <<<<"insert">>, "Insert">>, <<<<"update">>, "Update">>,
                      <<<<"delete">>, "Delete">>, <<<<"select">>, "Insert">> >>),
      K(<<"to">>), Obj("table"), Get("definition", "rule_tail"), Put("k", "CreateRule")>>

aggregate_option ==
    <<Get("key", "lower_ident"), K(<<"=">>), Get("value", "option_value"), Put("k", "AggregateOption")>>

parse_create_aggregate(r) ==
    <<Put("or_replace", r), Obj("name"), Put("arg_types", <<>>), K(<<"(">>),
      Pick(<<C(<<"*">>, <<Push("arg_types", <<"*">>)>>), Look(<<")">>, <<>>),
             Else(<<Sep(",", <<Else(<<Either(<<"order">>, <<Eat(<<"by">>)>>, <<>>),
                                      PushGet("arg_types", "type_name")>>)>>)>>)>>),
      K(<<")">>), Paren0("options", "aggregate_option"), Put("k", "CreateAggregate")>>

parse_optional_arg_types ==
    <<Pick(<<
        C(<<"(">>, <<Pick(<<
            C(<<"*">>, <<Put("it", Some(<<<<"*">>>>))>>), Look(<<")">>, <<Put("it", Some(<<>>))>>),
            Else(<<Put("all", <<>>),
                   Sep(",", <<Else(<<Pick(untyped_leads("<word>")
                                          \o <<Look(<<"<word>">>, <<OneToken>>), Else(<<>>)>>),
                                     PushGet("all", "type_name")>>)>>),
                   Turn("some_all")>>)>>), K(<<")">>)>>),
        Else(<<Put("it", None)>>)>>)>>

operator_object(kind) == <<Get("name", "operator_symbol"), Get("definition", "tail"), Put("kind", kind),
                           Put("k", "CreateCatalogObject")>>
parse_create_operator_object ==
    <<Pick(<<C(<<"class">>, catalog_object("OperatorClass")),
             C(<<"family">>, catalog_object("OperatorFamily")), Else(operator_object("Operator"))>>)>>

replaceable(r) ==
    <<C(<<"view">>, <<Put("or_replace", r)>> \o create_view), C(<<"function">>, parse_create_function(r)),
      C(<<"trigger">>, parse_create_trigger), C(<<"rule">>, parse_create_rule(r)),
      C(<<"aggregate">>, parse_create_aggregate(r))>>

parse_create == <<Pick(
    LookAny(<<"unique", "index">>, parse_create_index)
    \o <<C(<<"materialized">>, create_matview), C(<<"or", "replace">>, <<Pick(replaceable(TRUE))>>)>>
    \o replaceable(FALSE)
    \o <<C(<<"policy">>, parse_create_policy), C(<<"extension">>, create_extension),
         C(<<"role">>, create_role), C(<<"sequence">>, create_sequence),
         C(<<"user", "mapping">>, <<K(<<"for">>)>> \o catalog_object("UserMapping")),
         C(<<"user">>, create_user), C(<<"schema">>, create_schema),
         C(<<"database">>, create_database), C(<<"tablespace">>, create_tablespace),
         C(<<"collation">>, create_collation), C(<<"type">>, parse_create_type),
         C(<<"domain">>, parse_create_domain), C(<<"operator">>, parse_create_operator_object),
         C(<<"event">>, <<K(<<"trigger">>)>> \o catalog_object("EventTrigger")),
         C(<<"foreign">>, parse_create_foreign), C(<<"server">>, catalog_object("Server")),
         C(<<"publication">>, catalog_object("Publication")),
         C(<<"subscription">>, catalog_object("Subscription")), Else(create_table)>>)>>

-----------------------------------------------------------------------------
(* DROP.                                                                    *)

drop(k) == <<parse_if_exists, Obj("name"), cascade_or_restrict, Put("k", k)>>
drop_role == <<parse_if_exists, Name("name"), cascade_or_restrict, Put("k", "DropRole")>>
drop_on(k) == <<parse_if_exists, Name("name"), K(<<"on">>), Obj("table"), cascade_or_restrict, Put("k", k)>>
drop_catalog(kind, for) ==
    <<parse_if_exists, K(for), Obj("name"), Get("definition", "tail"), Put("kind", kind),
      Put("k", "DropCatalogObject")>>
drop_operator == <<parse_if_exists, Get("name", "operator_symbol"), Get("definition", "tail"),
                   Put("kind", "Operator"), Put("k", "DropCatalogObject")>>
drop_database == <<parse_if_exists, Obj("name"), SkipTo(";"), Put("k", "DropDatabase")>>
drop_extension == <<parse_if_exists, Obj("name"), Flag("cascade", <<"cascade">>), Eat(<<"restrict">>),
                    Put("k", "DropExtension")>>
parse_drop_function == <<parse_if_exists, Obj("name"), Get("arg_types", "optional_arg_types"),
                         cascade_or_restrict, Put("k", "DropFunction")>>
parse_drop_aggregate == <<parse_if_exists, Obj("name"), Get("arg_types", "optional_arg_types"),
                          Turn("or_no_types"), cascade_or_restrict, Put("k", "DropAggregate")>>

parse_drop == <<Pick(<<
    C(<<"role">>, drop_role), C(<<"user", "mapping">>, drop_catalog("UserMapping", <<"for">>)),
    C(<<"user">>, drop_role), C(<<"operator", "class">>, drop_catalog("OperatorClass", <<>>)),
    C(<<"operator", "family">>, drop_catalog("OperatorFamily", <<>>)), C(<<"operator">>, drop_operator),
    C(<<"event", "trigger">>, drop_catalog("EventTrigger", <<>>)),
    C(<<"foreign", "data", "wrapper">>, drop_catalog("ForeignDataWrapper", <<>>)),
    C(<<"foreign", "table">>, drop("DropTable")), C(<<"server">>, drop_catalog("Server", <<>>)),
    C(<<"publication">>, drop_catalog("Publication", <<>>)),
    C(<<"subscription">>, drop_catalog("Subscription", <<>>)),
    C(<<"sequence">>, drop("DropSequence")), C(<<"index">>, drop("DropIndex")),
    C(<<"extension">>, drop_extension), C(<<"schema">>, drop("DropSchema")),
    C(<<"database">>, drop_database), C(<<"tablespace">>, drop("DropTablespace")),
    C(<<"collation">>, drop("DropCollation")), C(<<"type">>, drop("DropType")),
    C(<<"domain">>, drop("DropDomain")), C(<<"view">>, drop("DropView")),
    C(<<"materialized", "view">>, drop("DropMaterializedView")),
    C(<<"function">>, parse_drop_function), C(<<"trigger">>, drop_on("DropTrigger")),
    C(<<"rule">>, drop_on("DropRule")), C(<<"aggregate">>, parse_drop_aggregate),
    C(<<"policy">>, drop_on("DropPolicy")), C(<<"table">>, drop("DropTable"))>>)>>

-----------------------------------------------------------------------------
(* The dispatch on the leading keyword.                                     *)

parse_statement == <<Pick(<<
    C(<<"create">>, parse_create), C(<<"alter">>, parse_alter), C(<<"drop">>, parse_drop),
    C(<<"insert">>, <<Get("it", "insert")>>), C(<<"copy">>, parse_copy), C(<<"truncate">>, parse_truncate),
    C(<<"declare">>, parse_declare_cursor), C(<<"fetch">>, parse_fetch),
    Look(<<"select">>, <<Get("it", "select")>>), Look(<<"with">>, <<Get("it", "select")>>),
    C(<<"update">>, <<Get("it", "update")>>), C(<<"delete">>, <<Get("it", "delete")>>),
    C(<<"merge">>, <<Get("it", "merge")>>), C(<<"explain">>, parse_explain),
    C(<<"analyze">>, parse_analyze), C(<<"comment">>, parse_comment), C(<<"grant">>, parse_grant),
    C(<<"revoke">>, parse_revoke), C(<<"security">>, parse_security_label),
    C(<<"vacuum">>, parse_vacuum), C(<<"reindex">>, parse_reindex), C(<<"cluster">>, parse_cluster),
    C(<<"checkpoint">>, <<Put("k", "Checkpoint")>>), C(<<"discard">>, parse_discard),
    C(<<"listen">>, parse_listen), C(<<"notify">>, parse_notify), C(<<"unlisten">>, parse_unlisten),
    C(<<"lock">>, parse_lock_table), C(<<"refresh">>, parse_refresh), C(<<"begin">>, begin),
    C(<<"start">>, begin), C(<<"commit">>, commit), C(<<"end">>, commit),
    C(<<"prepare">>, <<K(<<"transaction">>), Str("gid"), Put("k", "PrepareTransaction")>>),
    C(<<"rollback">>, rollback), C(<<"abort">>, rollback), C(<<"savepoint">>, parse_savepoint),
    C(<<"release">>, parse_release), C(<<"set">>, parse_set), C(<<"reset">>, reset),
    C(<<"show">>, show)>>)>>
=============================================================================
